---- MODULE Spec2Model ----
(***************************************************************************)
(* Model of the UML diagram generator's patch cycle: the API request       *)
(* (api/main.py), run_driver (driver.py), the retry wrapper               *)
(* (utils/decorators.py), the two nodes' execute methods                   *)
(* (nodes/context_extractor.py, nodes/code_generator.py) and the JSON      *)
(* record store (utils/db_utils.py).                                       *)
(*                                                                         *)
(* Identifiers: thread_id "thread_00N" and message_id "msg_00N" are the    *)
(* numbers N; a file path is the tuple of the path components that vary;   *)
(* None is 0 for a message id, <<>> for a path, a diagram id or a record.  *)
(* Documents are tokens: "empty" is {} (or the empty text), "d1" is a       *)
(* non-empty mapping, "c1" is a well-formed PlantUML text.                 *)
(***************************************************************************)
EXTENDS Integers, Sequences, FiniteSets, TLC

\* ---------------------------------------------------------------- bounds
NumProcs == 2
NumThreads == 2
MaxTypes == 2
MaxRetriesArg == 3
MaxOps == 2
MaxLines == 3
MaxLineLen == 2
MaxOccurrence == 4

\* @retry_on_failure(max_retries=3, ...) on both execute methods
MAX_RETRIES == 3

Procs == 1..NumProcs
Threads == 1..NumThreads
MsgIds == 1..NumProcs
Kinds == {"class", "sequence"}
USER_ID == "user_001"
None == <<>>
NoFile == "nofile"

KindLists == UNION {[1..n -> Kinds] : n \in 0..MaxTypes}

\* What the proposer (the LLM call) can hand back to ContextExtractor.execute:
\* it raises, or returns an operation list.  "none" is the empty list,
\* "root_X" the single operation {add, root, X}; X = "str" is a payload that
\* is not a mapping.
ContextOps == {"none", "root_empty", "root_d1", "root_str"}
CodeOps == {"none", "root_empty", "root_c1"}
LLM_ERROR == "llm_error"

VARIABLES
    messages,          \* database/messages.json: list of message records
    diagrams_db,       \* database/diagrams.json: [parsable, recs]
    context_files,     \* data/context/<thread>/<msg>/<kind>/context.json
    code_files,        \* data/plantuml_code/<thread>/<msg>/<kind>/diagram.puml
    max_retries,       \* the decorator's max_retries argument
    pc,                \* where each request is in run_pipeline_stream/run_driver
    thread_id, message_id, diagram_types, parent_message_id,
    idx,               \* run_driver's loop index (1-based)
    attempt,           \* the wrapper's loop variable
    invocations,       \* calls of the wrapped func made by the current wrapper call
    diagram_states,    \* State.diagram_states
    diagram_records,   \* run_driver's diagram_records
    rec_idx,           \* update_after_run's position in diagram_records
    loaded,            \* add_diagram's local `diagrams`
    status,            \* status of the last update the generator yielded
    error,             \* exception that ended the run, "none" if none
    valid_log,         \* (idx, node) pairs whose wrapper returned after validation passed
    sp,                \* a call of ContextExtractor.apply_operations in progress
    tp,                \* a call of CodeGenerator.apply_operations in progress
    fb,                \* a call of db_utils.update_diagram_feedback in progress
    gen                \* a run_driver generator, suspended at one of its yields

\* the two patchers' calls, which the driver's actions leave alone
patchers == <<sp, tp>>

vars == <<messages, diagrams_db, context_files, code_files, max_retries, pc,
          thread_id, message_id, diagram_types, parent_message_id, idx, attempt,
          invocations, diagram_states, diagram_records, rec_idx, loaded, status,
          error, valid_log, sp, tp, fb, gen>>

store == <<messages, diagrams_db, context_files, code_files>>
request == <<thread_id, message_id, diagram_types>>
\* the variables of the requests and of the files they write
driver == <<messages, diagrams_db, context_files, code_files, max_retries, pc,
            thread_id, message_id, diagram_types, parent_message_id, idx, attempt,
            invocations, diagram_states, diagram_records, rec_idx, loaded, status,
            error, valid_log>>

Paths == Threads \X MsgIds \X Kinds

\* ------------------------------------------------------- pure helpers
\* [x for x in s if Test(x)], in order
RECURSIVE SelectRecs(_, _, _, _)
SelectRecs(s, u, t, k) ==
    IF s = <<>> THEN <<>>
    ELSE LET r == Head(s)
             rest == SelectRecs(Tail(s), u, t, k)
         IN IF r.user_id = u /\ r.thread_id = t /\ r.diagram_type = k
            THEN <<r>> \o rest ELSE rest

RECURSIVE SelectMsgs(_, _)
SelectMsgs(s, t) ==
    IF s = <<>> THEN <<>>
    ELSE IF Head(s).thread_id = t THEN <<Head(s)>> \o SelectMsgs(Tail(s), t)
         ELSE SelectMsgs(Tail(s), t)

\* db_utils.get_thread_messages: the thread's messages, oldest first (the file
\* is appended to in creation order, so the timestamp sort keeps file order).
get_thread_messages(msgs, t) == SelectMsgs(msgs, t)

\* api/main.py _generate_message_id
_generate_message_id(msgs, t) == Len(get_thread_messages(msgs, t)) + 1

\* driver.py _generate_diagram_id: the f-string of the four parts
_generate_diagram_id(u, t, m, k) == <<u, t, m, k>>

\* db_utils.get_latest_diagram on a loaded list: filter by key, stable sort by
\* version descending, first element; None when nothing matches.
get_latest_diagram(recs, u, t, k) ==
    LET matching == SelectRecs(recs, u, t, k)
    IN IF matching = <<>> THEN None
       ELSE LET top == CHOOSE v \in {matching[i].version : i \in 1..Len(matching)} :
                          \A i \in 1..Len(matching) : matching[i].version <= v
                first == CHOOSE i \in 1..Len(matching) :
                          /\ matching[i].version = top
                          /\ \A j \in 1..(i-1) : matching[j].version # top
            IN matching[first]

\* driver.py lines 192-197
NextVersion(latest) == IF latest # None THEN latest.version + 1 ELSE 1
ParentDiagramId(latest) == IF latest # None THEN latest.diagram_id ELSE None

\* a context path without the message id in it: data/context/<thread>/<kind>
ContextFilePath_PerThread(t, m, k) == <<t, 1, k>>

\* ContextExtractor.save_context_file / CodeGenerator.save_code_file: the path
ContextFilePath(t, m, k) == <<t, m, k>>
CodeFilePath(t, m, k) == <<t, m, k>>


\* file_utils.save_json / save_file: open(path, 'w') and write
save_file(files, path, content) ==
    [q \in DOMAIN files \cup {path} |-> IF q = path THEN content ELSE files[q]]

\* State.is_update_flow
is_update_flow(parent) == parent # 0

\* file_utils.load_json / load_file: None when the file does not exist
load_file(files, path) == IF path \in DOMAIN files THEN files[path] ELSE NoFile

\* ContextExtractor.apply_operations on operation-list tokens.  The empty list
\* returns `previous_context.copy() if previous_context else {}`; a root
\* operation replaces the document, and raises when its payload is no mapping.
ContextApplyOperations(previous, ops) ==
    CASE ops = "none" -> IF previous \in {NoFile, "empty"} THEN "empty" ELSE previous
      [] ops = "root_empty" -> "empty"
      [] ops = "root_d1" -> "d1"
      [] ops = "root_str" -> "ValueError"

\* CodeGenerator.apply_operations: `previous_code if previous_code else ""`,
\* a root operation replaces the text with its block.
CodeApplyOperations(previous, ops) ==
    CASE ops = "none" -> IF previous \in {NoFile, "empty"} THEN "empty" ELSE previous
      [] ops = "root_empty" -> "empty"
      [] ops = "root_c1" -> "c1"

\* ContextExtractor.validate_output: the file exists and holds a non-empty dict
ContextValidateOutput(files, ds) ==
    /\ ds # None
    /\ ds.context_file_path # None
    /\ load_file(files, ds.context_file_path) \notin {NoFile, "empty"}

\* CodeGenerator.validate_output: the file exists, is not empty and has
\* @startuml ... @enduml with content in between
CodeValidateOutput(files, ds) ==
    /\ ds # None
    /\ ds.plantuml_code_file_path # None
    /\ load_file(files, ds.plantuml_code_file_path) = "c1"

\* retry_on_failure with the loop bound off by one, range(1, max_retries + 2)
retry_on_failure_OneMore(att, maxr, returned, valid) ==
    IF returned /\ valid THEN "return"
    ELSE IF att <= maxr THEN "retry"
    ELSE "raise"

\* retry_on_failure that returns the result without looking at the validator's
\* verdict
retry_on_failure_Unvalidated(att, maxr, returned, valid) ==
    IF returned THEN "return"
    ELSE IF att < maxr THEN "retry"
    ELSE "raise"

\* retry_on_failure that gives up at the first failure
retry_on_failure_NoRetry(att, maxr, returned, valid) ==
    IF returned /\ valid THEN "return" ELSE "raise"

\* decorators.retry_on_failure.wrapper, one turn of `for attempt in
\* range(1, max_retries + 1)`: func `returned` (did not raise) and the validator
\* found its result `valid`, or not.  "return" the result, go round again
\* ("retry"), or fall out of the loop and "raise".
retry_on_failure(att, maxr, returned, valid) ==
    IF returned /\ valid THEN "return"
    ELSE IF att < maxr THEN "retry"
    ELSE "raise"

\* The previous document the nodes patch: the file the latest record of the key
\* points to, in the update flow only (execute, lines 458-467 / 535-546).
PreviousContext(recs, files, parent, u, t, k) ==
    LET latest == get_latest_diagram(recs, u, t, k)
    IN IF is_update_flow(parent) /\ latest # None /\ latest.context_file_path # None
       THEN load_file(files, latest.context_file_path) ELSE NoFile

PreviousCode(recs, files, parent, u, t, k) ==
    LET latest == get_latest_diagram(recs, u, t, k)
    IN IF is_update_flow(parent) /\ latest # None /\ latest.plantuml_code_file_path # None
       THEN load_file(files, latest.plantuml_code_file_path) ELSE NoFile

\* dataclasses.DiagramState.__init__ as ContextExtractor.execute calls it
DiagramState(path, ops, v) ==
    [context_file_path |-> path, plantuml_code_file_path |-> None,
     context_operations |-> ops, code_operations |-> "none", version |-> v]

\* State.diagram_states of a new State (and of a run that has ended: the
\* object is gone with the generator's frame)
NoState == [k \in Kinds |-> None]

\* number of requests whose run has started and not ended
Active == Cardinality({q \in Procs : pc[q] \notin {"idle", "complete", "failed"}})

CurrentKind(p) == diagram_types[p][idx[p]]

\* ------------------------------------------- structural documents
\* A JSON value carries its Python type: a dict ("map", a function on keys),
\* a list ("seq") or a str ("str").  A key is the sequence of the symbols of
\* its text.  The strings of the documents and payloads below hold no key's
\* text and equal no list element.
Str(s) == [t |-> "str", v |-> s]
Map(f) == [t |-> "map", v |-> f]
Sq(q) == [t |-> "seq", v |-> q]
EmptyMap == Map(<<>>)
EmptySeq == Sq(<<>>)

\* len(x)
StrLen(s) == IF s = "{x}" THEN 3 ELSE IF s \in {"{}", "[]"} THEN 2 ELSE 1
PyLen(x) ==
    IF x.t = "seq" THEN Len(x.v)
    ELSE IF x.t = "map" THEN Cardinality(DOMAIN x.v)
    ELSE StrLen(x.v)

\* s[i] of a str
CharAt(s, i) == IF s = "{x}" THEN <<"{", "x", "}">>[i + 1] ELSE s

\* d[k] = x on a dict, del d[k]
MapSet(d, k, x) == Map([j \in DOMAIN d.v \cup {k} |-> IF j = k THEN x ELSE d.v[j]])
MapDel(d, k) == Map([j \in DOMAIN d.v \ {k} |-> d.v[j]])

\* l[i] = x (0-based), l.insert(i, x), del l[i], l.append(x)
ListSet(l, i, x) == Sq([l.v EXCEPT ![i + 1] = x])
ListInsert(l, i, x) == Sq(SubSeq(l.v, 1, i) \o <<x>> \o SubSeq(l.v, i + 1, Len(l.v)))
\* a deletion that removes the last element whatever the index
ListDel_Last(l, i) == Sq(SubSeq(l.v, 1, Len(l.v) - 1))
ListDel(l, i) == Sq(SubSeq(l.v, 1, i) \o SubSeq(l.v, i + 2, Len(l.v)))
ListAppend(l, x) == Sq(Append(l.v, x))

\* ContextExtractor.parse_block_value: a str that starts and ends like a JSON
\* object or array is given to json.loads; "{x}" is not JSON and stays a str.
LooksLikeJson(s) == s \in {"{}", "[]", "{x}"}
parse_block_value(block) ==
    IF block.t = "str" /\ LooksLikeJson(block.v)
    THEN IF block.v = "{}" THEN EmptyMap
         ELSE IF block.v = "[]" THEN EmptySeq
         ELSE block
    ELSE block

\* ---- Path addressing (ContextExtractor._apply_operation, lines 286-300)
\* A location is the sequence of its symbols: letters, ".", "[", "]", digits,
\* and the words "end" and "root".
Digits == {"0", "1", "2", "3"}
DigitValue(c) == IF c = "0" THEN 0 ELSE IF c = "1" THEN 1 ELSE IF c = "2" THEN 2 ELSE 3
NoIndex == -1
EndIndex == -2

\* re.split(r'\.', location)
RECURSIVE SplitDots(_, _)
SplitDots(loc, cur) ==
    IF loc = <<>> THEN <<cur>>
    ELSE IF Head(loc) = "." THEN <<cur>> \o SplitDots(Tail(loc), <<>>)
    ELSE SplitDots(Tail(loc), Append(cur, Head(loc)))

\* the longest prefix of a token matched by [^\[]+
RECURSIVE KeyPrefix(_)
KeyPrefix(token) ==
    IF token = <<>> \/ Head(token) = "[" THEN <<>>
    ELSE <<Head(token)>> \o KeyPrefix(Tail(token))

\* the longest prefix matched by \d*, and the number it spells
RECURSIVE DigitPrefix(_)
DigitPrefix(s) ==
    IF s = <<>> \/ Head(s) \notin Digits THEN <<>>
    ELSE <<Head(s)>> \o DigitPrefix(Tail(s))

RECURSIVE IntOf(_)
IntOf(ds) ==
    IF ds = <<>> THEN 0
    ELSE IntOf(SubSeq(ds, 1, Len(ds) - 1)) * 10 + DigitValue(ds[Len(ds)])

\* group 2 of (?:\[(\d+|end)\])? matched against what follows the key
IndexOf(rest) ==
    IF Len(rest) >= 3 /\ rest[1] = "[" /\ rest[2] = "end" /\ rest[3] = "]"
    THEN EndIndex
    ELSE IF Len(rest) >= 3 /\ rest[1] = "["
         THEN LET ds == DigitPrefix(Tail(rest))
              IN IF ds # <<>> /\ Len(rest) >= Len(ds) + 2 /\ rest[Len(ds) + 2] = "]"
                 THEN IntOf(ds) ELSE NoIndex
         ELSE NoIndex

\* re.match(r'([^\[]+)(?:\[(\d+|end)\])?', token): the (key, index) parts of
\* the tokens that match; a token that does not match is passed over
RECURSIVE PartsOf(_)
PartsOf(tokens) ==
    IF tokens = <<>> THEN <<>>
    ELSE LET token == Head(tokens)
             key == KeyPrefix(token)
         IN (IF key = <<>> THEN <<>>
             ELSE <<[key |-> key,
                     index |-> IndexOf(SubSeq(token, Len(key) + 1, Len(token)))]>>)
            \o PartsOf(Tail(tokens))

ParseLocation(location) == PartsOf(SplitDots(location, <<>>))

\* ---- Structural patcher (ContextExtractor._apply_operation, lines 302-350)
\* The outcome of running code on a container: what the container holds
\* afterwards, and the exception raised ("none" if none).  The mutations made
\* before an exception stay made.
Outcome(doc, exc) == [doc |-> doc, exc |-> exc]

\* The operation at the target, lines 321-348: `current` is cur, the last part
\* is (key, index).
Terminal(cur, key, index, operation, value) ==
    IF operation = "add" THEN
        IF index # NoIndex THEN
            IF cur.t # "map" THEN Outcome(cur, "TypeError")
            ELSE LET c1 == IF key \in DOMAIN cur.v THEN cur ELSE MapSet(cur, key, EmptySeq)
                     target == c1.v[key]
                 IN IF index = EndIndex
                    THEN IF target.t = "seq"
                         THEN Outcome(MapSet(c1, key, ListAppend(target, value)), "none")
                         ELSE Outcome(c1, "AttributeError")
                    ELSE IF index <= PyLen(target)
                         THEN IF target.t = "seq"
                              THEN Outcome(MapSet(c1, key, ListInsert(target, index, value)), "none")
                              ELSE Outcome(c1, "AttributeError")
                         ELSE Outcome(c1, "none")
        ELSE IF cur.t = "map" THEN Outcome(MapSet(cur, key, value), "none")
             ELSE Outcome(cur, "TypeError")
    ELSE IF operation = "delete" THEN
        IF index # NoIndex THEN
            IF cur.t = "map" /\ key \in DOMAIN cur.v /\ cur.v[key].t = "seq"
                /\ index # EndIndex /\ 0 <= index /\ index < Len(cur.v[key].v)
            THEN Outcome(MapSet(cur, key, ListDel(cur.v[key], index)), "none")
            ELSE Outcome(cur, "none")
        ELSE IF cur.t = "map" /\ key \in DOMAIN cur.v
             THEN Outcome(MapDel(cur, key), "none")
             ELSE Outcome(cur, "none")
    ELSE Outcome(cur, "none")

\* a sequence padded with {} until it holds index i
RECURSIVE PadTo(_, _)
PadTo(l, i) == IF Len(l.v) > i THEN l ELSE PadTo(ListAppend(l, EmptyMap), i)

\* Navigation, lines 305-318, followed by the operation at the target:
\* `current` is cur, parts are the parts not yet walked.
RECURSIVE Walk(_, _, _, _)
Walk(cur, parts, operation, value) ==
    LET key == parts[1].key
        index == parts[1].index
        rest == Tail(parts)
    IN IF Len(parts) = 1 THEN Terminal(cur, key, index, operation, value)
       ELSE IF cur.t # "map" THEN Outcome(cur, "TypeError")
       ELSE
        LET c1 == IF key \in DOMAIN cur.v THEN cur
                  ELSE MapSet(cur, key, IF index # NoIndex THEN EmptySeq ELSE EmptyMap)
            child == c1.v[key]
        IN IF index = NoIndex THEN
               LET r == Walk(child, rest, operation, value)
               IN Outcome(MapSet(c1, key, r.doc), r.exc)
           ELSE IF index = EndIndex THEN
               \* no descent is made for [end]: the walk goes on in `current`
               Walk(c1, rest, operation, value)
           ELSE IF index < PyLen(child) THEN
               IF child.t = "seq" THEN
                   LET r == Walk(child.v[index + 1], rest, operation, value)
                   IN Outcome(MapSet(c1, key, ListSet(child, index, r.doc)), r.exc)
               ELSE IF child.t = "map" THEN Outcome(c1, "KeyError")
               ELSE \* a character of a str: nothing can be changed in it
                   Outcome(c1, Walk(Str(CharAt(child.v, index)), rest, operation, value).exc)
           ELSE IF child.t = "seq" THEN
               LET padded == PadTo(child, index)
                   r == Walk(padded.v[index + 1], rest, operation, value)
               IN Outcome(MapSet(c1, key, ListSet(padded, index, r.doc)), r.exc)
           ELSE Outcome(c1, "AttributeError")

\* ContextExtractor._apply_operation(context, operation, location, value)
_apply_operation(context, operation, location, value) ==
    LET parts == ParseLocation(location)
    IN IF parts = <<>> THEN Outcome(context, "IndexError")
       ELSE Walk(context, parts, operation, value)

\* The top-level key whose binding in `context` the operation replaces or
\* removes (rather than changing the object bound to it): the target is in
\* `context` itself and has no index.  <<>> if there is none.
Rebound(context, operation, location) ==
    LET parts == ParseLocation(location)
    IN IF /\ parts # <<>>
          /\ \A i \in 1..(Len(parts) - 1) : parts[i].index = EndIndex
          /\ parts[Len(parts)].index = NoIndex
          /\ operation \in {"add", "delete"}
       THEN {parts[Len(parts)].key} ELSE {}

\* ---- ContextExtractor.apply_operations, lines 225-280
\* The keys, documents, payloads and locations the patcher is run on
KeyA == <<"a">>
KeyB == <<"b">>
StructDocs ==
    {EmptyMap,
     Map([k \in {KeyA} |-> Str("s")]),
     Map([k \in {KeyA} |-> Sq(<<Str("s")>>)]),
     Map([k \in {KeyA} |-> Sq(<<Str("s"), Str("t")>>)]),
     Map([k \in {KeyA} |-> Map([j \in {KeyB} |-> Str("s")])]),
     Map([k \in {KeyA, KeyB} |-> IF k = KeyA THEN Sq(<<EmptyMap>>) ELSE Str("s")])}

Payloads ==
    {Str("v"), Str("{}"), Str("[]"), Str("{x}"), Map([k \in {KeyB} |-> Str("v")])}

RootLocation == <<"root">>
ValidLocations ==
    {<<"a">>, <<"b">>, <<"a", ".", "b">>,
     <<"a", "[", "0", "]">>, <<"a", "[", "1", "]">>, <<"a", "[", "2", "]">>,
     <<"a", "[", "end", "]">>,
     <<"a", "[", "0", "]", ".", "b">>, <<"a", "[", "end", "]", ".", "b">>,
     <<"b", "[", "1", "]", ".", "a">>}
\* "a[x]", "a[1", "[0]", "a.[0]"
MalformedLocations ==
    {<<"a", "[", "x", "]">>, <<"a", "[", "1">>, <<"[", "0", "]">>,
     <<"a", ".", "[", "0", "]">>}
Locations == ValidLocations \cup MalformedLocations

Operation(operation, location, block) ==
    [operation |-> operation, location |-> location, block |-> block]

\* The value of a delete is not looked at unless the location is root
StructOps ==
    {Operation("add", l, b) : l \in Locations \cup {RootLocation}, b \in Payloads}
    \cup {Operation(o, l, Str("v")) : o \in {"delete", "update"}, l \in Locations}
    \cup {Operation("delete", RootLocation, b) : b \in Payloads}

StructBatches == UNION {[1..n -> StructOps] : n \in 0..MaxOps}

NoStructCall ==
    [on |-> FALSE, given |-> EmptyMap, previous |-> EmptyMap, context |-> EmptyMap,
     shared |-> {}, ops |-> <<>>, i |-> 0, exc |-> "none", saved |-> FALSE]

\* The call apply_operations(previous_context, operations) at line 229:
\* `given` is the value of previous_context at the call, `previous` the value
\* the caller's object has now, `context` the local variable, `shared` the
\* keys of context bound to the very object previous_context binds them to
\* (dict.copy() is shallow), `i` the position in the list (1-based), `saved`
\* whether execute has passed the returned document to save_context_file.
StructCall(d, ops) ==
    [on |-> TRUE, given |-> d, previous |-> d, context |-> d,
     shared |-> DOMAIN d.v, ops |-> ops, i |-> 1, exc |-> "none", saved |-> FALSE]

\* apply_operations in which a root operation only fills an empty document
ApplyStructOp_KeepFirstRoot(c) ==
    LET op == c.ops[c.i]
        parsed_block == parse_block_value(op.block)
    IN IF op.location = RootLocation
       THEN [c EXCEPT !.context = IF @ = EmptyMap THEN parsed_block ELSE @,
                      !.shared = {}, !.i = @ + 1]
       ELSE [c EXCEPT !.i = @ + 1]

\* apply_operations without the isinstance(parsed_block, dict) check
ApplyStructOp_AnyRoot(c) ==
    LET op == c.ops[c.i]
    IN IF op.location = RootLocation
       THEN [c EXCEPT !.context = parse_block_value(op.block), !.shared = {}, !.i = @ + 1]
       ELSE [c EXCEPT !.i = @ + 1]

\* One turn of the loop `for i, op in enumerate(operations)`
ApplyStructOp(c) ==
    LET op == c.ops[c.i]
        parsed_block == parse_block_value(op.block)
    IN IF op.location = RootLocation THEN
           IF parsed_block.t # "map"
           THEN [c EXCEPT !.exc = "ValueError"]
           ELSE [c EXCEPT !.context = parsed_block, !.shared = {}, !.i = @ + 1]
       ELSE
           LET r == _apply_operation(c.context, op.operation, op.location, parsed_block)
               sh == c.shared \ Rebound(c.context, op.operation, op.location)
           IN [c EXCEPT !.context = r.doc,
                        !.shared = sh,
                        !.previous = Map([j \in DOMAIN c.previous.v |->
                                            IF j \in sh THEN r.doc.v[j]
                                            ELSE c.previous.v[j]]),
                        !.exc = r.exc,
                        !.i = IF r.exc = "none" THEN @ + 1 ELSE @]

StructRunning(c) == c.on /\ c.exc = "none" /\ c.i <= Len(c.ops)
\* apply_operations has returned c.context
StructReturned(c) == c.on /\ c.exc = "none" /\ c.i > Len(c.ops)

\* ------------------------------------------------- text documents
\* A Python str is the sequence of its characters; the sentinel word
\* EMPTY_LINE and the word root are one symbol each.
NL == "\n"
Whitespace == {" "}
EMPTY_LINE == <<"EMPTY_LINE">>

\* s.split('\n')
RECURSIVE SplitLines(_, _)
SplitLines(s, cur) ==
    IF s = <<>> THEN <<cur>>
    ELSE IF Head(s) = NL THEN <<cur>> \o SplitLines(Tail(s), <<>>)
    ELSE SplitLines(Tail(s), Append(cur, Head(s)))

\* '\n'.join(lines)
RECURSIVE JoinLines(_)
JoinLines(lines) ==
    IF lines = <<>> THEN <<>>
    ELSE IF Len(lines) = 1 THEN lines[1]
    ELSE lines[1] \o <<NL>> \o JoinLines(Tail(lines))

\* line.strip() == ""
IsBlank(line) == \A n \in 1..Len(line) : line[n] \in Whitespace

\* re.search(re.escape(pattern), line): pattern is a substring of line
Contains(line, pattern) ==
    \E n \in 0..(Len(line) - Len(pattern)) : SubSeq(line, n + 1, n + Len(pattern)) = pattern

\* ---- Line pattern addressing (CodeGenerator._find_line_index, lines 388-420)
\* the loop `for i, line in enumerate(lines)` from index i on, `count` matches
\* counted so far; -1 is "not found"
RECURSIVE FindFrom(_, _, _, _, _)
FindFrom(lines, i, count, pattern, occurrence) ==
    IF i >= Len(lines) THEN -1
    ELSE LET line == lines[i + 1]
             matches == IF pattern = EMPTY_LINE THEN IsBlank(line)
                        ELSE Contains(line, pattern)
             c == IF matches THEN count + 1 ELSE count
         IN IF matches /\ c = occurrence THEN i
            ELSE FindFrom(lines, i + 1, c, pattern, occurrence)

\* a search that counts from the end of the document
_find_line_index_FromEnd(lines, pattern, occurrence) ==
    LET n == Len(lines)
        r == FindFrom([j \in 1..n |-> lines[n + 1 - j]], 0, 0, pattern, occurrence)
    IN IF r = -1 THEN -1 ELSE n - 1 - r

_find_line_index(lines, pattern, occurrence) == FindFrom(lines, 0, 0, pattern, occurrence)

\* CodeGenerator._parse_location_pattern: re.match(r'\((.+?)\)\[(\d+)\]', pattern),
\* the text being the shortest that lets the rest match
ClosesAt(p, j) ==
    /\ Len(p) >= j + 4
    /\ p[j + 1] = ")" /\ p[j + 2] = "["
    /\ LET ds == DigitPrefix(SubSeq(p, j + 3, Len(p)))
       IN ds # <<>> /\ Len(p) >= j + 3 + Len(ds) /\ p[j + 3 + Len(ds)] = "]"

_parse_location_pattern(p) ==
    LET ends == {j \in 2..Len(p) :
                    /\ p[1] = "("
                    /\ \A n \in 2..j : p[n] # NL
                    /\ ClosesAt(p, j)}
    IN IF ends = {} THEN [text |-> p, occurrence |-> 1]
       ELSE LET j == CHOOSE e \in ends : \A f \in ends : e <= f
            IN [text |-> SubSeq(p, 2, j),
                occurrence |-> IntOf(DigitPrefix(SubSeq(p, j + 3, Len(p))))]

\* ---- Text patcher (CodeGenerator._apply_operation, lines 300-364)
\* lines.insert(i, x) on a list of lines
InsertAt(lines, i, x) ==
    IF i >= Len(lines) THEN Append(lines, x)
    ELSE SubSeq(lines, 1, i) \o <<x>> \o SubSeq(lines, i + 1, Len(lines))

\* the loop `for i in range(len(code_lines) - len(block_lines) + 1)` from i on:
\* the first i at which the block's lines stand, -1 if none
RECURSIVE FindBlock(_, _, _)
FindBlock(code_lines, block_lines, i) ==
    IF i >= Len(code_lines) - Len(block_lines) + 1 THEN -1
    ELSE IF SubSeq(code_lines, i + 1, i + Len(block_lines)) = block_lines THEN i
    ELSE FindBlock(code_lines, block_lines, i + 1)

\* an Add that inserts before the `before` anchor when that anchor is found
TextAdd_BeforeAnchor(code, location, block) ==
    LET before == _parse_location_pattern(location.before_line)
        lines == SplitLines(code, <<>>)
        before_idx == _find_line_index(lines, before.text, before.occurrence)
    IN IF before_idx = -1 THEN code \o <<NL>> \o block
       ELSE JoinLines(InsertAt(lines, before_idx, block))

\* an Add that drops the payload when the `after` anchor is not found
TextAdd_Strict(code, location, block) ==
    LET after == _parse_location_pattern(location.after_line)
        lines == SplitLines(code, <<>>)
        after_idx == _find_line_index(lines, after.text, after.occurrence)
    IN IF after_idx = -1 THEN code
       ELSE JoinLines(InsertAt(lines, after_idx + 1, block))

\* lines 321-346
TextAdd(code, location, block) ==
    LET after == _parse_location_pattern(location.after_line)
        before == _parse_location_pattern(location.before_line)
        lines == SplitLines(code, <<>>)
        after_idx == _find_line_index(lines, after.text, after.occurrence)
        before_idx == _find_line_index(lines, before.text, before.occurrence)
    IN IF after_idx = -1 THEN code \o <<NL>> \o block
       ELSE JoinLines(InsertAt(lines, after_idx + 1, block))

\* a Delete that removes every line equal to the block's first line
TextDelete_EveryLine(code, block) ==
    LET block_lines == SplitLines(block, <<>>)
        code_lines == SplitLines(code, <<>>)
    IN JoinLines(SelectSeq(code_lines, LAMBDA l : l # block_lines[1]))

\* lines 348-362
TextDelete(code, block) ==
    LET block_lines == SplitLines(block, <<>>)
        code_lines == SplitLines(code, <<>>)
        i == FindBlock(code_lines, block_lines, 0)
    IN IF i = -1 THEN code
       ELSE JoinLines(SubSeq(code_lines, 1, i)
                      \o SubSeq(code_lines, i + Len(block_lines) + 1, Len(code_lines)))

\* _apply_operation whose delete looks for the block only when the `after`
\* anchor is in the document
TextApplyOperation_AnchoredDelete(code, operation, location, block) ==
    IF operation = "add" THEN TextAdd(code, location, block)
    ELSE IF operation = "delete"
    THEN IF _find_line_index(SplitLines(code, <<>>),
                             _parse_location_pattern(location.after_line).text,
                             _parse_location_pattern(location.after_line).occurrence) # -1
         THEN TextDelete(code, block)
         ELSE code
    ELSE code

\* CodeGenerator._apply_operation(code, operation, location, block)
TextApplyOperation(code, operation, location, block) ==
    IF operation = "add" THEN TextAdd(code, location, block)
    ELSE IF operation = "delete" THEN TextDelete(code, block)
    ELSE code

\* ---- CodeGenerator.apply_operations, lines 241-298
\* The documents, payloads and locations the patcher is run on
LineA == <<"a">>
LineB == <<"b">>
TextDocs ==
    {<<>>,
     JoinLines(<<LineA>>),
     JoinLines(<<LineA, LineB>>),
     JoinLines(<<LineA, LineA>>),
     JoinLines(<<LineA, <<>>, LineB>>),
     JoinLines(<<<<"a", "b">>, LineA, LineB>>),
     JoinLines(<<LineB, <<" ">>, LineA, LineB>>),
     JoinLines(<<LineA, LineB, LineA, LineB>>)}

Blocks == {<<>>, LineA, LineB, JoinLines(<<LineA, LineB>>)}

\* "(a)[1]", "(a)[2]", "(b)[1]", "a", "(EMPTY_LINE)[1]", "(x)[1]"
AfterAnchors ==
    {<<"(", "a", ")", "[", "1", "]">>, <<"(", "a", ")", "[", "2", "]">>,
     <<"(", "b", ")", "[", "1", "]">>, <<"a">>,
     <<"(", "EMPTY_LINE", ")", "[", "1", "]">>, <<"(", "x", ")", "[", "1", "]">>}
BeforeAnchors ==
    {<<"(", "b", ")", "[", "1", "]">>, <<"(", "a", ")", "[", "1", "]">>,
     <<"(", "x", ")", "[", "1", "]">>}

\* PlantUMLOperation.location: a str, or a PlantUMLLocation
StrLocation(s) == [kind |-> "str", text |-> s, after_line |-> <<>>, before_line |-> <<>>]
PlantUMLLocation(a, b) == [kind |-> "anchors", text |-> <<>>, after_line |-> a, before_line |-> b]
TextRoot == StrLocation(<<"root">>)

TextOps ==
    {Operation("add", PlantUMLLocation(a, b), x) :
        a \in AfterAnchors, b \in BeforeAnchors, x \in Blocks}
    \cup {Operation("delete", PlantUMLLocation(<<"a">>, b), x) :
            b \in {<<"(", "b", ")", "[", "1", "]">>, <<"(", "x", ")", "[", "1", "]">>},
            x \in Blocks}
    \cup {Operation(o, TextRoot, x) : o \in {"add", "delete"}, x \in Blocks}
    \cup {Operation(o, StrLocation(<<"end">>), LineA) : o \in {"add", "delete"}}
    \cup {Operation("update", PlantUMLLocation(<<"a">>, <<"a">>), LineA)}

TextBatches == UNION {[1..n -> TextOps] : n \in 0..MaxOps}

NoTextCall ==
    [on |-> FALSE, mode |-> "none", given |-> <<>>, prior |-> <<>>, code |-> <<>>,
     ops |-> <<>>, i |-> 0, exc |-> "none",
     lines |-> <<>>, pattern |-> <<>>, occurrence |-> 0, result |-> -1]

\* The call apply_operations(previous_code, operations) at line 258: `given`
\* is previous_code, `code` the local variable, `prior` its value before the
\* last operation applied, `i` the position in the list (1-based).
TextCall(d, ops) ==
    [NoTextCall EXCEPT !.on = TRUE, !.mode = "apply", !.given = d, !.prior = d,
                       !.code = d, !.ops = ops, !.i = 1]

\* apply_operations that places every operation in the document it was called
\* with
ApplyTextOp_OnGiven(c) ==
    LET op == c.ops[c.i]
    IN IF op.location = TextRoot
       THEN [c EXCEPT !.prior = c.code, !.code = op.block, !.i = @ + 1]
       ELSE IF op.location.kind = "anchors"
       THEN [c EXCEPT !.prior = c.code,
                      !.code = TextApplyOperation(c.given, op.operation, op.location, op.block),
                      !.i = @ + 1]
       ELSE [c EXCEPT !.exc = "ValueError"]

\* apply_operations in which only a root operation of kind add replaces the
\* document
ApplyTextOp_RootAddOnly(c) ==
    LET op == c.ops[c.i]
    IN IF op.location = TextRoot
       THEN [c EXCEPT !.prior = c.code,
                      !.code = IF op.operation = "add" THEN op.block ELSE @,
                      !.i = @ + 1]
       ELSE IF op.location.kind = "anchors"
       THEN [c EXCEPT !.prior = c.code,
                      !.code = TextApplyOperation(c.code, op.operation, op.location, op.block),
                      !.i = @ + 1]
       ELSE [c EXCEPT !.exc = "ValueError"]

\* apply_operations that passes over an operation it cannot place
ApplyTextOp_Lenient(c) ==
    LET op == c.ops[c.i]
    IN IF op.location = TextRoot
       THEN [c EXCEPT !.prior = c.code, !.code = op.block, !.i = @ + 1]
       ELSE IF op.location.kind = "anchors"
       THEN [c EXCEPT !.prior = c.code,
                      !.code = TextApplyOperation(c.code, op.operation, op.location, op.block),
                      !.i = @ + 1]
       ELSE [c EXCEPT !.prior = c.code, !.i = @ + 1]

\* One turn of the loop `for i, op in enumerate(operations)`
ApplyTextOp(c) ==
    LET op == c.ops[c.i]
    IN IF op.location = TextRoot
       THEN [c EXCEPT !.prior = c.code, !.code = op.block, !.i = @ + 1]
       ELSE IF op.location.kind = "anchors"
       THEN [c EXCEPT !.prior = c.code,
                      !.code = TextApplyOperation(c.code, op.operation, op.location, op.block),
                      !.i = @ + 1]
       ELSE [c EXCEPT !.exc = "ValueError"]

TextRunning(c) == c.mode = "apply" /\ c.exc = "none" /\ c.i <= Len(c.ops)
\* apply_operations has returned c.code
TextReturned(c) == c.mode = "apply" /\ c.exc = "none" /\ c.i > Len(c.ops)

\* ---- a call of _find_line_index alone
\* every line of at most MaxLineLen characters, every list of at most
\* MaxLines lines
LineChars == {"a", "b", " "}
Lines == UNION {[1..n -> LineChars] : n \in 0..MaxLineLen}
LineLists == UNION {[1..n -> Lines] : n \in 0..MaxLines}
Patterns == (Lines \ {<<>>}) \cup {EMPTY_LINE}

LocateCall(lines, pattern, occurrence) ==
    [NoTextCall EXCEPT !.on = TRUE, !.mode = "locate", !.lines = lines,
                       !.pattern = pattern, !.occurrence = occurrence]

\* ---------------------------------------------------------------- Init
\* _initialize_db: both stores empty, no request received
\* ---- db_utils.update_diagram_feedback, lines 324-350: no call in progress
NoFeedbackCall ==
    [pc |-> "idle", diagram_id |-> <<>>, user_feedback |-> "", feedback_rating |-> 0,
     diagrams |-> <<>>, result |-> FALSE]

\* ---- driver.run_driver as a generator: none created
NoGenerator == [on |-> FALSE]

DriverInit ==
    /\ messages = <<>>
    /\ diagrams_db = [parsable |-> TRUE, recs |-> <<>>]
    /\ context_files = [q \in {} |-> NoFile]
    /\ code_files = [q \in {} |-> NoFile]
    /\ max_retries \in 1..MaxRetriesArg
    /\ pc = [p \in Procs |-> "idle"]
    /\ thread_id = [p \in Procs |-> 1]
    /\ message_id = [p \in Procs |-> 0]
    /\ diagram_types = [p \in Procs |-> <<>>]
    /\ parent_message_id = [p \in Procs |-> 0]
    /\ idx = [p \in Procs |-> 0]
    /\ attempt = [p \in Procs |-> 0]
    /\ invocations = [p \in Procs |-> 0]
    /\ diagram_states = [p \in Procs |-> NoState]
    /\ diagram_records = [p \in Procs |-> <<>>]
    /\ rec_idx = [p \in Procs |-> 0]
    /\ loaded = [p \in Procs |-> <<>>]
    /\ status = [p \in Procs |-> "none"]
    /\ error = [p \in Procs |-> "none"]
    /\ valid_log = [p \in Procs |-> {}]

Init ==
    /\ DriverInit
    /\ sp = NoStructCall /\ tp = NoTextCall
    /\ fb = NoFeedbackCall /\ gen = NoGenerator

\* ------------------------------------------------------------- actions
\* api/main.py run_pipeline_stream up to `return EventSourceResponse(...)`:
\* the message id is taken from the thread's message count, the run itself
\* starts when the response is streamed.  `limit` is the number of requests
\* the caller lets run at the same time.
StartRequest(p, t, kinds, limit) ==
    /\ pc[p] = "idle"
    /\ UNCHANGED <<patchers, fb, gen>>
    /\ \A q \in Procs : q < p => pc[q] # "idle"
    /\ Active < limit
    /\ message_id' = [message_id EXCEPT ![p] = _generate_message_id(messages, t)]
    /\ message_id'[p] \in MsgIds
    /\ thread_id' = [thread_id EXCEPT ![p] = t]
    /\ diagram_types' = [diagram_types EXCEPT ![p] = kinds]
    /\ pc' = [pc EXCEPT ![p] = "start"]
    /\ UNCHANGED <<store, max_retries, parent_message_id, idx, attempt, invocations,
                   diagram_states, diagram_records, rec_idx, loaded, status, error,
                   valid_log>>

\* driver.py run_driver lines 47-121: first updates, thread history, add_message,
\* State, default diagram types, nodes.
\* add_message is taken as one step: no claim is about the message file.
BeginRun(p) ==
    /\ pc[p] = "start"
    /\ UNCHANGED <<patchers, fb, gen>>
    /\ LET thread_messages == get_thread_messages(messages, thread_id[p])
           parent == IF thread_messages # <<>>
                     THEN thread_messages[Len(thread_messages)].message_id ELSE 0
       IN /\ parent_message_id' = [parent_message_id EXCEPT ![p] = parent]
          /\ messages' = Append(messages,
                 [thread_id |-> thread_id[p], message_id |-> message_id[p],
                  diagram_ids |-> <<>>, completed |-> FALSE])
    /\ diagram_types' = [diagram_types EXCEPT ![p] =
            IF diagram_types[p] = <<>> THEN <<"class">> ELSE diagram_types[p]]
    /\ idx' = [idx EXCEPT ![p] = 1]
    /\ attempt' = [attempt EXCEPT ![p] = 1]
    /\ status' = [status EXCEPT ![p] = "processing"]
    /\ pc' = [pc EXCEPT ![p] = "extract"]
    /\ UNCHANGED <<diagrams_db, context_files, code_files, max_retries, thread_id,
                   message_id, invocations, diagram_states, diagram_records, rec_idx,
                   loaded, error, valid_log>>


\* What the wrapper does with the outcome of one attempt (decorators.py lines
\* 37-75), `att` being its loop variable and `inv` the calls of func it made
\* before this one: return to run_driver (pc `done`), go round the loop (pc
\* `again`), or raise RuntimeError, which ends the generator (event_generator
\* reports "error").  `st` is the State object as func left it.
WrapperStep(p, att, inv, returned, valid, again, done, node, st) ==
    LET r == retry_on_failure(att, max_retries, returned, valid)
    IN /\ invocations' = [invocations EXCEPT ![p] = inv + 1]
       /\ attempt' = [attempt EXCEPT ![p] = IF r = "retry" THEN att + 1 ELSE att]
       /\ pc' = [pc EXCEPT ![p] =
              IF r = "return" THEN done ELSE IF r = "raise" THEN "failed" ELSE again]
       /\ error' = [error EXCEPT ![p] = IF r = "raise" THEN "RuntimeError" ELSE @]
       /\ status' = [status EXCEPT ![p] = IF r = "raise" THEN "error" ELSE @]
       /\ valid_log' = [valid_log EXCEPT ![p] =
              IF returned /\ valid THEN @ \cup {<<idx[p], node>>} ELSE @]
       /\ diagram_states' = [diagram_states EXCEPT ![p] =
              IF r = "raise" THEN NoState ELSE st]
       /\ diagram_records' = [diagram_records EXCEPT ![p] =
              IF r = "raise" THEN <<>> ELSE @]

\* One attempt of ContextExtractor.execute under the wrapper (context_extractor.py
\* lines 444-500, decorators.py lines 32-66).  `out` is what the proposer does.
\* The store is read by create_user_prompt and execute in the update flow, and
\* by _infer_version after the file is saved; a read of an unparsable store
\* raises.
ExtractAttempt(p, out) ==
    /\ pc[p] = "extract"
    /\ UNCHANGED <<patchers, fb, gen>>
    /\ LET k == CurrentKind(p)
           upd == is_update_flow(parent_message_id[p])
           readable == diagrams_db.parsable
           previous == IF readable
                       THEN PreviousContext(diagrams_db.recs, context_files,
                                parent_message_id[p], USER_ID, thread_id[p], k)
                       ELSE NoFile
           new_context == IF out = LLM_ERROR THEN "ValueError"
                          ELSE ContextApplyOperations(previous, out)
           path == ContextFilePath(thread_id[p], message_id[p], k)
           saved == /\ out # LLM_ERROR
                    /\ upd => readable
                    /\ new_context # "ValueError"
           returned == saved /\ readable
           version == NextVersion(get_latest_diagram(diagrams_db.recs, USER_ID,
                                                     thread_id[p], k))
           old == diagram_states[p][k]
           ds == IF old # None
                 THEN [old EXCEPT !.context_file_path = path,
                                  !.context_operations = out,
                                  !.version = version]
                 ELSE DiagramState(path, out, version)
           files == IF saved THEN save_file(context_files, path, new_context)
                    ELSE context_files
           valid == ContextValidateOutput(files, ds)
       IN /\ context_files' = files
          /\ WrapperStep(p, attempt[p], invocations[p], returned, valid,
                         "extract", "extracted", "extractor",
                         IF returned THEN [diagram_states[p] EXCEPT ![k] = ds]
                         ELSE diagram_states[p])
    /\ UNCHANGED <<messages, diagrams_db, code_files, max_retries, request,
                   parent_message_id, idx, rec_idx, loaded>>

\* One attempt of CodeGenerator.execute under the wrapper (code_generator.py
\* lines 508-571); the one made at pc "extracted" is the first of a new wrapper
\* call.  create_user_prompt raises when the diagram state holds no context
\* operations.
GenerateAttempt(p, out) ==
    /\ pc[p] \in {"extracted", "generate"}
    /\ UNCHANGED <<patchers, fb, gen>>
    /\ LET k == CurrentKind(p)
           first == pc[p] = "extracted"
           upd == is_update_flow(parent_message_id[p])
           readable == diagrams_db.parsable
           old == diagram_states[p][k]
           prompted == /\ old # None
                       /\ old.context_operations # "none"
                       /\ upd => readable
           previous == IF readable
                       THEN PreviousCode(diagrams_db.recs, code_files,
                                parent_message_id[p], USER_ID, thread_id[p], k)
                       ELSE NoFile
           returned == prompted /\ out # LLM_ERROR
           final_code == IF returned THEN CodeApplyOperations(previous, out) ELSE NoFile
           path == CodeFilePath(thread_id[p], message_id[p], k)
           ds == IF returned
                 THEN [old EXCEPT !.plantuml_code_file_path = path,
                                  !.code_operations = out]
                 ELSE old
           files == IF returned THEN save_file(code_files, path, final_code)
                    ELSE code_files
           valid == CodeValidateOutput(files, ds)
       IN /\ code_files' = files
          /\ WrapperStep(p, IF first THEN 1 ELSE attempt[p],
                         IF first THEN 0 ELSE invocations[p], returned, valid,
                         "generate", "generated", "generator",
                         [diagram_states[p] EXCEPT ![k] = ds])
    /\ UNCHANGED <<messages, diagrams_db, context_files, max_retries, request,
                   parent_message_id, idx, rec_idx, loaded>>


\* The record run_driver prepares (lines 209-220) and add_diagram stores (lines
\* 217-231); the png path, the timestamp and the feedback fields are left out.
DiagramRecord(u, t, m, k, version, parent, ds) ==
    [diagram_id |-> _generate_diagram_id(u, t, m, k),
     parent_diagram_id |-> parent,
     version |-> version,
     user_id |-> u, thread_id |-> t, message_id |-> m, diagram_type |-> k,
     context_file_path |-> ds.context_file_path,
     plantuml_code_file_path |-> ds.plantuml_code_file_path]

\* driver.py lines 160-229: render, read the latest record of the key, number
\* the new version, append the record to diagram_records; then the next kind,
\* or update_after_run after the last one.  get_latest_diagram raises on an
\* unparsable store, which ends the run.
RenderAndVersion(p) ==
    /\ pc[p] = "generated"
    /\ UNCHANGED <<patchers, fb, gen>>
    /\ IF diagrams_db.parsable
       THEN LET k == CurrentKind(p)
                latest == get_latest_diagram(diagrams_db.recs, USER_ID, thread_id[p], k)
                version == NextVersion(latest)
                ds == [diagram_states[p][k] EXCEPT !.version = version]
                rec == DiagramRecord(USER_ID, thread_id[p], message_id[p], k,
                                     version, ParentDiagramId(latest), ds)
                last == idx[p] = Len(diagram_types[p])
            IN /\ diagram_states' = [diagram_states EXCEPT ![p][k] = ds]
               /\ diagram_records' = [diagram_records EXCEPT ![p] = Append(@, rec)]
               /\ idx' = [idx EXCEPT ![p] = @ + 1]
               /\ pc' = [pc EXCEPT ![p] = IF last THEN "persist" ELSE "extract"]
               /\ attempt' = [attempt EXCEPT ![p] = 1]
               /\ invocations' = [invocations EXCEPT ![p] = 0]
               /\ rec_idx' = [rec_idx EXCEPT ![p] = IF last THEN 1 ELSE @]
               /\ UNCHANGED <<error, status>>
       ELSE /\ pc' = [pc EXCEPT ![p] = "failed"]
            /\ error' = [error EXCEPT ![p] = "JSONDecodeError"]
            /\ status' = [status EXCEPT ![p] = "error"]
            /\ diagram_states' = [diagram_states EXCEPT ![p] = NoState]
            /\ diagram_records' = [diagram_records EXCEPT ![p] = <<>>]
            /\ UNCHANGED <<idx, attempt, invocations, rec_idx>>
    /\ UNCHANGED <<store, max_retries, request, parent_message_id, loaded, valid_log>>

\* update_after_run's `except Exception`: the error is printed, False is
\* returned, run_driver (lines 239-249) does not look at it and yields
\* "complete".
SwallowAndComplete(p) ==
    /\ pc' = [pc EXCEPT ![p] = "complete"]
    /\ status' = [status EXCEPT ![p] = "complete"]
    /\ diagram_states' = [diagram_states EXCEPT ![p] = NoState]
    /\ loaded' = [loaded EXCEPT ![p] = <<>>]

\* add_diagram line 215, _load_diagrams: read the whole file
AddDiagramLoad(p) ==
    /\ pc[p] = "persist"
    /\ UNCHANGED <<patchers, fb, gen>>
    /\ IF diagrams_db.parsable
       THEN /\ loaded' = [loaded EXCEPT ![p] = diagrams_db.recs]
            /\ pc' = [pc EXCEPT ![p] = "open"]
            /\ UNCHANGED status
            /\ UNCHANGED diagram_states
       ELSE SwallowAndComplete(p)
    /\ UNCHANGED <<store, max_retries, request, parent_message_id, idx, attempt,
                   invocations, diagram_records, rec_idx, error, valid_log>>

\* _save_diagrams line 60, open(DIAGRAMS_DB, 'w'): the file is truncated
AddDiagramOpen(p) ==
    /\ pc[p] = "open"
    /\ UNCHANGED <<patchers, fb, gen>>
    /\ diagrams_db' = [parsable |-> FALSE, recs |-> <<>>]
    /\ pc' = [pc EXCEPT ![p] = "dump"]
    /\ UNCHANGED <<messages, context_files, code_files, max_retries, request,
                   parent_message_id, idx, attempt, invocations, diagram_states,
                   diagram_records, rec_idx, loaded, status, error, valid_log>>

\* _save_diagrams line 60 when open() raises OSError (disk full, permissions)
AddDiagramOpenFails(p) ==
    /\ pc[p] = "open"
    /\ UNCHANGED <<patchers, fb, gen>>
    /\ SwallowAndComplete(p)
    /\ UNCHANGED <<store, max_retries, request, parent_message_id, idx, attempt,
                   invocations, diagram_records, rec_idx, error, valid_log>>

\* _save_diagrams line 61 and the close of the file: the loaded list with the
\* new record appended is written out; update_after_run goes to the next record.
AddDiagramDump(p) ==
    /\ pc[p] = "dump"
    /\ UNCHANGED <<patchers, fb, gen>>
    /\ diagrams_db' = [parsable |-> TRUE,
                       recs |-> Append(loaded[p], diagram_records[p][rec_idx[p]])]
    /\ rec_idx' = [rec_idx EXCEPT ![p] = @ + 1]
    /\ pc' = [pc EXCEPT ![p] =
           IF rec_idx[p] = Len(diagram_records[p]) THEN "update_message" ELSE "persist"]
    /\ loaded' = [loaded EXCEPT ![p] = <<>>]
    /\ UNCHANGED <<messages, context_files, code_files, max_retries, request,
                   parent_message_id, idx, attempt, invocations, diagram_states,
                   diagram_records, status, error, valid_log>>

\* db_utils.update_message on the loaded list: the first message with this
\* message_id gets the diagram ids and the completion time
RECURSIVE update_message(_, _, _)
update_message(msgs, m, ids) ==
    IF msgs = <<>> THEN <<>>
    ELSE IF Head(msgs).message_id = m
         THEN <<[Head(msgs) EXCEPT !.diagram_ids = ids, !.completed = TRUE]>> \o Tail(msgs)
         ELSE <<Head(msgs)>> \o update_message(Tail(msgs), m, ids)

\* update_after_run lines 378-384 and run_driver lines 244-249
UpdateMessage(p) ==
    /\ pc[p] = "update_message"
    /\ UNCHANGED <<patchers, fb, gen>>
    /\ messages' = update_message(messages, message_id[p],
           [i \in 1..Len(diagram_records[p]) |-> diagram_records[p][i].diagram_id])
    /\ pc' = [pc EXCEPT ![p] = "complete"]
    /\ status' = [status EXCEPT ![p] = "complete"]
    /\ diagram_states' = [diagram_states EXCEPT ![p] = NoState]
    /\ UNCHANGED <<diagrams_db, context_files, code_files, max_retries, request,
                   parent_message_id, idx, attempt, invocations, diagram_records,
                   rec_idx, loaded, error, valid_log>>

\* ---- db_utils.update_diagram_feedback, lines 324-350
\* A field that holds None or a value: None is <<>>, the value v is <<v>>.
Some(v) == <<v>>

\* The record add_diagram writes (db_utils.py lines 217-231) with the two
\* feedback fields DiagramRecord leaves out, both None in a new record.
StoredDiagram(r) ==
    [f \in DOMAIN r \cup {"user_feedback", "feedback_rating"} |->
        IF f \in DOMAIN r THEN r[f] ELSE None]

\* the position of the first record with the id, 0 if there is none
FirstWithId(diagrams, diagram_id) ==
    IF \E i \in 1..Len(diagrams) : diagrams[i].diagram_id = diagram_id
    THEN CHOOSE i \in 1..Len(diagrams) :
            /\ diagrams[i].diagram_id = diagram_id
            /\ \A j \in 1..(i - 1) : diagrams[j].diagram_id # diagram_id
    ELSE 0

\* the loop of update_diagram_feedback writing into every record with the id
update_diagram_feedback_EveryMatch(diagrams, diagram_id, user_feedback, feedback_rating) ==
    [diagrams |-> [i \in 1..Len(diagrams) |->
                      IF diagrams[i].diagram_id = diagram_id
                      THEN [diagrams[i] EXCEPT !.user_feedback = Some(user_feedback),
                                               !.feedback_rating = Some(feedback_rating)]
                      ELSE diagrams[i]],
     saved |-> FirstWithId(diagrams, diagram_id) # 0,
     result |-> FirstWithId(diagrams, diagram_id) # 0]

\* The loop of update_diagram_feedback on the loaded list (lines 341-350): the
\* first record with the id gets the two fields, the list is saved and True
\* returned; with no such record nothing is saved and False returned.
update_diagram_feedback(diagrams, diagram_id, user_feedback, feedback_rating) ==
    LET i == FirstWithId(diagrams, diagram_id)
    IN IF i # 0
       THEN [diagrams |-> [diagrams EXCEPT ![i].user_feedback = Some(user_feedback),
                                           ![i].feedback_rating = Some(feedback_rating)],
             saved |-> TRUE, result |-> TRUE]
       ELSE [diagrams |-> diagrams, saved |-> FALSE, result |-> FALSE]

\* The stores the calls are made on: what runs on thread 1 leave in
\* diagrams.json (class alone; class and sequence; class twice in one run; a
\* second message's class as version 2; both).
FeedbackRecord(m, k, version, parent) ==
    StoredDiagram(DiagramRecord(USER_ID, 1, m, k, version, parent,
        [context_file_path |-> ContextFilePath(1, m, k),
         plantuml_code_file_path |-> CodeFilePath(1, m, k)]))
FeedbackStores ==
    LET c1 == FeedbackRecord(1, "class", 1, None)
        s1 == FeedbackRecord(1, "sequence", 1, None)
        c2 == FeedbackRecord(2, "class", 2, c1.diagram_id)
    IN {<<>>, <<c1>>, <<c1, s1>>, <<c1, c1>>, <<c1, c2>>, <<c1, s1, c2>>}

\* FeedbackRequest (api/main.py lines 186-189): the ids, texts and ratings sent
FeedbackIds == {_generate_diagram_id(USER_ID, 1, m, k) : m \in 1..2, k \in Kinds}
FeedbackTexts == {"good", "bad"}
FeedbackRatings == {1, 5}

\* send_feedback calls update_diagram_feedback, whose first statement is
\* _load_diagrams()
FeedbackLoad(diagram_id, user_feedback, feedback_rating) ==
    /\ fb.pc = "idle"
    /\ diagrams_db.parsable
    /\ fb' = [pc |-> "loaded", diagram_id |-> diagram_id, user_feedback |-> user_feedback,
              feedback_rating |-> feedback_rating, diagrams |-> diagrams_db.recs,
              result |-> FALSE]
    /\ UNCHANGED <<driver, sp, tp, gen>>

\* lines 343-350: the loop, _save_diagrams when a record was found, the return
FeedbackUpdate ==
    /\ fb.pc = "loaded"
    /\ LET r == update_diagram_feedback(fb.diagrams, fb.diagram_id, fb.user_feedback,
                                        fb.feedback_rating)
       IN /\ fb' = [fb EXCEPT !.pc = "returned", !.diagrams = r.diagrams,
                              !.result = r.result]
          /\ diagrams_db' = IF r.saved THEN [parsable |-> TRUE, recs |-> r.diagrams]
                            ELSE diagrams_db
    /\ UNCHANGED <<messages, context_files, code_files, max_retries, pc, thread_id,
                   message_id, diagram_types, parent_message_id, idx, attempt,
                   invocations, diagram_states, diagram_records, rec_idx, loaded,
                   status, error, valid_log, sp, tp, gen>>

\* send_feedback answers with the result (api/main.py lines 203-208)
FeedbackReturn ==
    /\ fb.pc = "returned"
    /\ fb' = NoFeedbackCall
    /\ UNCHANGED <<driver, sp, tp, gen>>

\* ---- Python float arithmetic (IEEE 754 binary64, round to nearest even) as
\* run_driver uses it for the progress values, driver.py lines 125-228.
\* A natural number of any size is the sequence of its digits in base 2^15,
\* lowest first, without leading zeros; a positive float is m * 2^e with m of
\* 53 bits, the float 0.0 has no digits.
MantissaBits == 53
LimbBits == 15
Limb == 2^LimbBits

RECURSIVE TrimLimbs(_)
TrimLimbs(a) ==
    IF a = <<>> \/ a[Len(a)] # 0 THEN a ELSE TrimLimbs(SubSeq(a, 1, Len(a) - 1))

LimbsOf(n) == TrimLimbs(<<n % Limb, n \div Limb>>)
IntOfLimbs(a) == IF a = <<>> THEN 0 ELSE IF Len(a) = 1 THEN a[1] ELSE a[1] + Limb * a[2]

LimbAt(a, i) == IF i <= Len(a) THEN a[i] ELSE 0

RECURSIVE AddFrom(_, _, _, _)
AddFrom(a, b, i, carry) ==
    IF i > Len(a) /\ i > Len(b) THEN (IF carry # 0 THEN <<carry>> ELSE <<>>)
    ELSE LET t == LimbAt(a, i) + LimbAt(b, i) + carry
         IN <<t % Limb>> \o AddFrom(a, b, i + 1, t \div Limb)
AddLimbs(a, b) == AddFrom(a, b, 1, 0)

\* a * n for a digit n
RECURSIVE MulFrom(_, _, _, _)
MulFrom(a, n, i, carry) ==
    IF i > Len(a) THEN (IF carry # 0 THEN <<carry>> ELSE <<>>)
    ELSE LET t == a[i] * n + carry
         IN <<t % Limb>> \o MulFrom(a, n, i + 1, t \div Limb)
MulSmall(a, n) == TrimLimbs(MulFrom(a, n, 1, 0))

RECURSIVE MulLimbs(_, _)
MulLimbs(a, b) ==
    IF a = <<>> \/ b = <<>> THEN <<>>
    ELSE LET rest == MulLimbs(Tail(a), b)
         IN AddLimbs(MulSmall(b, Head(a)), IF rest = <<>> THEN <<>> ELSE <<0>> \o rest)

\* quotient and remainder of a by the digit n
RECURSIVE DivSmall(_, _)
DivSmall(a, n) ==
    IF a = <<>> THEN [q |-> <<>>, r |-> 0]
    ELSE LET high == DivSmall(Tail(a), n)
             cur == Limb * high.r + Head(a)
         IN [q |-> <<cur \div n>> \o high.q, r |-> cur % n]

ShiftLeft(a, k) ==
    IF a = <<>> THEN <<>>
    ELSE [i \in 1..(k \div LimbBits) |-> 0] \o MulSmall(a, 2^(k % LimbBits))
ShiftRight(a, k) ==
    TrimLimbs(DivSmall(SubSeq(a, (k \div LimbBits) + 1, Len(a)), 2^(k % LimbBits)).q)

\* the number of bits of a # 0, and its i-th bit (the lowest is the first)
BitLength(a) ==
    LimbBits * (Len(a) - 1)
        + CHOOSE n \in 1..LimbBits : 2^(n - 1) <= a[Len(a)] /\ a[Len(a)] < 2^n
BitAt(a, i) ==
    (LimbAt(a, ((i - 1) \div LimbBits) + 1) \div 2^((i - 1) % LimbBits)) % 2

Float(m, e) == [m |-> m, e |-> e]

\* The float nearest to M * 2^E, ties to the even mantissa
RoundFloat(M, E) ==
    LET a == TrimLimbs(M)
        d == BitLength(a) - MantissaBits
    IN IF a = <<>> THEN Float(<<>>, 0)
       ELSE IF d <= 0 THEN Float(ShiftLeft(a, -d), E + d)
       ELSE LET kept == ShiftRight(a, d)
                guard == BitAt(a, d)
                sticky == \E i \in 1..(d - 1) : BitAt(a, i) = 1
                up == guard = 1 /\ (sticky \/ BitAt(kept, 1) = 1)
                m == IF up THEN AddLimbs(kept, <<1>>) ELSE kept
            IN IF BitLength(m) > MantissaBits
               THEN Float(ShiftRight(m, 1), E + d + 1)
               ELSE Float(m, E + d)

\* float(n) of a small int, a / n of two small ints (true division: the
\* quotient to 64 more bits, with a last bit that says the division left a
\* remainder, rounded), x * y, x + y, and int(x) for x >= 0
FromInt(n) == RoundFloat(LimbsOf(n), 0)
FDiv(a, n) ==
    LET d == DivSmall(ShiftLeft(LimbsOf(a), 64), n)
    IN RoundFloat(AddLimbs(MulSmall(TrimLimbs(d.q), 2), <<IF d.r # 0 THEN 1 ELSE 0>>), -65)
FMul(x, y) == RoundFloat(MulLimbs(x.m, y.m), x.e + y.e)
FAdd(x, y) ==
    IF x.m = <<>> THEN y
    ELSE IF y.m = <<>> THEN x
    ELSE LET e == IF x.e < y.e THEN x.e ELSE y.e
         IN RoundFloat(AddLimbs(ShiftLeft(x.m, x.e - e), ShiftLeft(y.m, y.e - e)), e)
int(x) ==
    IF x.m = <<>> THEN 0
    ELSE IF x.e >= 0 THEN IntOfLimbs(ShiftLeft(x.m, x.e))
    ELSE IntOfLimbs(ShiftRight(x.m, -x.e))

\* ---- driver.run_driver as a generator, lines 31-260
\* driver.py line 125 and line 129: 70 / total_diagrams and
\* 20 + (idx - 1) * progress_per_diagram
progress_per_diagram(total_diagrams) == FDiv(70, total_diagrams)
base_progress(idx_, per_diagram) == FAdd(FromInt(20), FMul(FromInt(idx_ - 1), per_diagram))

\* The progress values of the five updates of one diagram (lines 135, 146,
\* 155, 167, 228): int(base), int(base + p * 0.2), int(base + p * 0.5),
\* int(base + p * 0.8), int(base + p)
DiagramProgress(idx_, per_diagram) ==
    LET base == base_progress(idx_, per_diagram)
    IN <<int(base),
         int(FAdd(base, FMul(per_diagram, FDiv(2, 10)))),
         int(FAdd(base, FMul(per_diagram, FDiv(5, 10)))),
         int(FAdd(base, FMul(per_diagram, FDiv(8, 10)))),
         int(FAdd(base, per_diagram))>>

\* The lengths of the diagram_types lists the generator is created with: none
\* given (0), the short lists of the runs above, and a long one
LongList == 275
ListLengths == 0..MaxTypes \cup {LongList}

\* run_driver(...) called: the generator is created and has not run yet.
\* `given` is len(diagram_types) (0 for None), `files` whether a directory of
\* supporting files was passed, `pc` the yield it is suspended at, `total` is
\* total_diagrams, `idx` the loop index, `updates` the updates it has yielded,
\* `after_run` whether update_after_run was called, `ended` how it ended.
Generator(given, files) ==
    [on |-> TRUE, given |-> given, files |-> files, pc |-> "created", total |-> 0,
     idx |-> 0, updates |-> <<>>, after_run |-> FALSE, ended |-> "none"]

GenCreate(given, files) ==
    /\ gen = NoGenerator
    /\ gen' = Generator(given, files)
    /\ UNCHANGED <<driver, sp, tp, fb>>

\* the generator runs to a yield of {"status", "message", "progress"}
Update(status_, stage, idx_, progress) ==
    [status |-> status_, stage |-> stage, idx |-> idx_, progress |-> progress]
Suspended(at) == gen.on /\ gen.ended = "none" /\ gen.pc = at
Yield(g, at, update) ==
    /\ gen' = [g EXCEPT !.pc = at, !.updates = Append(@, update)]
    /\ UNCHANGED <<driver, sp, tp, fb>>

\* lines 47-51
GenStarted ==
    /\ Suspended("created")
    /\ Yield(gen, "started", Update("started", "started", 0, 0))
\* lines 53-59
GenHistory ==
    /\ Suspended("started")
    /\ Yield(gen, "history", Update("processing", "history", 0, 5))
\* lines 61-70: get_thread_messages, then the yield
GenSaving ==
    /\ Suspended("history")
    /\ Yield(gen, "saving", Update("processing", "saving", 0, 10))
\* lines 72-98: add_message, State, and with supporting files the yield
GenParsing ==
    /\ Suspended("saving") /\ gen.files
    /\ Yield(gen, "parsing", Update("processing", "parsing", 0, 15))
\* lines 100-116: (parse_files,) the default list, the yield
GenDetected ==
    /\ \/ Suspended("saving") /\ ~gen.files
       \/ Suspended("parsing")
    /\ Yield([gen EXCEPT !.total = IF gen.given = 0 THEN 1 ELSE gen.given],
             "detected", Update("processing", "detected", 0, 20))
\* lines 118-136: the nodes, progress_per_diagram, the loop's next item
GenProcessing ==
    /\ \/ Suspended("detected")
       \/ Suspended("done") /\ gen.idx < gen.total
    /\ LET i == gen.idx + 1
       IN Yield([gen EXCEPT !.idx = i], "processing",
                Update("processing", "processing", i,
                       DiagramProgress(i, progress_per_diagram(gen.total))[1]))
\* lines 138-147
GenExtracting ==
    /\ Suspended("processing")
    /\ Yield(gen, "extracting",
             Update("processing", "extracting", gen.idx,
                    DiagramProgress(gen.idx, progress_per_diagram(gen.total))[2]))
\* lines 148-156: extractor.execute returned
GenGenerating ==
    /\ Suspended("extracting")
    /\ Yield(gen, "generating",
             Update("processing", "generating", gen.idx,
                    DiagramProgress(gen.idx, progress_per_diagram(gen.total))[3]))
\* lines 157-168: generator.execute returned
GenRendering ==
    /\ Suspended("generating")
    /\ Yield(gen, "rendering",
             Update("processing", "rendering", gen.idx,
                    DiagramProgress(gen.idx, progress_per_diagram(gen.total))[4]))
\* lines 170-229: the image, the version, the record
GenDiagramComplete ==
    /\ Suspended("rendering")
    /\ Yield(gen, "done",
             Update("processing", "done", gen.idx,
                    DiagramProgress(gen.idx, progress_per_diagram(gen.total))[5]))
\* lines 231-237: the loop is over
GenDatabase ==
    /\ Suspended("done") /\ gen.idx = gen.total
    /\ Yield(gen, "database", Update("processing", "database", 0, 95))
\* lines 239-249: update_after_run, which returns whatever happens in it
GenComplete ==
    /\ Suspended("database")
    /\ Yield([gen EXCEPT !.after_run = TRUE], "complete",
             Update("complete", "complete", 0, 100))
\* lines 251-260: the generator returns its result
GenReturn ==
    /\ Suspended("complete")
    /\ gen' = [gen EXCEPT !.ended = "returned"]
    /\ UNCHANGED <<driver, sp, tp, fb>>
\* The code after these yields can raise (a store that cannot be read, a file
\* that cannot be parsed, a node out of retries, a failed render): the
\* generator ends without another update.
GenRaise ==
    /\ gen.on /\ gen.ended = "none"
    /\ gen.pc \in {"history", "saving", "parsing", "extracting", "generating", "rendering"}
    /\ gen' = [gen EXCEPT !.ended = "raised"]
    /\ UNCHANGED <<driver, sp, tp, fb>>

\* ------------------------------------------------------ specifications
Step(p, limit) ==
    \/ \E t \in Threads, kinds \in KindLists : StartRequest(p, t, kinds, limit)
    \/ BeginRun(p)
    \/ \E out \in ContextOps \cup {LLM_ERROR} : ExtractAttempt(p, out)
    \/ \E out \in CodeOps \cup {LLM_ERROR} : GenerateAttempt(p, out)
    \/ RenderAndVersion(p)
    \/ AddDiagramLoad(p)
    \/ AddDiagramOpen(p)
    \/ AddDiagramOpenFails(p)
    \/ AddDiagramDump(p)
    \/ UpdateMessage(p)

\* Requests served in parallel, their steps interleaved at the file operations,
\* the nodes decorated as in the source (max_retries=3)
Next == \E p \in Procs : Step(p, NumProcs)
ParInit == Init /\ max_retries = MAX_RETRIES
Spec == ParInit /\ [][Next]_vars

\* api.main.run_pipeline_stream.event_generator: the driver generators of the
\* requests of one server process are advanced by one event loop, so a request
\* is switched out only where run_driver yields: not inside a wrapper call's
\* attempts and not inside update_after_run.
BetweenYields(q) ==
    \/ pc[q] = "extract" /\ invocations[q] > 0
    \/ pc[q] = "generate"
    \/ pc[q] = "persist" /\ rec_idx[q] > 1
    \/ pc[q] \in {"open", "dump", "update_message"}

ApiNext ==
    \E p \in Procs :
        /\ \A q \in Procs \ {p} : ~BetweenYields(q)
        /\ Step(p, NumProcs)
ApiSpec == ParInit /\ [][ApiNext]_vars

\* The structural patcher alone: one call of apply_operations on a document
\* and an operation list, run one operation at a time.

StructInit ==
    /\ DriverInit
    /\ max_retries = MAX_RETRIES
    /\ tp = NoTextCall
    /\ fb = NoFeedbackCall /\ gen = NoGenerator
    /\ \E d \in StructDocs, ops \in StructBatches : sp = StructCall(d, ops)

StructStep ==
    /\ StructRunning(sp)
    /\ sp' = ApplyStructOp(sp)
    /\ UNCHANGED <<driver, tp, fb, gen>>

\* ContextExtractor.execute, lines 469-470: the document apply_operations
\* returned is saved
StructSave ==
    /\ StructReturned(sp)
    /\ ~sp.saved
    /\ sp' = [sp EXCEPT !.saved = TRUE]
    /\ UNCHANGED <<driver, tp, fb, gen>>

StructNext == StructStep \/ StructSave
StructSpec == StructInit /\ [][StructNext]_vars

\* The text patcher alone: one call of apply_operations on a document and an
\* operation list, run one operation at a time.
TextInit ==
    /\ DriverInit
    /\ max_retries = MAX_RETRIES
    /\ sp = NoStructCall
    /\ fb = NoFeedbackCall /\ gen = NoGenerator
    /\ \E d \in TextDocs, ops \in TextBatches : tp = TextCall(d, ops)

TextStep ==
    /\ TextRunning(tp)
    /\ tp' = ApplyTextOp(tp)
    /\ UNCHANGED <<driver, sp, fb, gen>>

TextSpec == TextInit /\ [][TextStep]_vars

\* _find_line_index alone, on every small line list, pattern and occurrence
LocateInit ==
    /\ DriverInit
    /\ max_retries = MAX_RETRIES
    /\ sp = NoStructCall
    /\ fb = NoFeedbackCall /\ gen = NoGenerator
    /\ \E lines \in LineLists, pattern \in Patterns, n \in 1..MaxOccurrence :
          tp = LocateCall(lines, pattern, n)

LocateStep ==
    /\ tp.mode = "locate"
    /\ tp' = [tp EXCEPT !.mode = "located",
                        !.result = _find_line_index(tp.lines, tp.pattern, tp.occurrence)]
    /\ UNCHANGED <<driver, sp, fb, gen>>

LocateSpec == LocateInit /\ [][LocateStep]_vars

\* update_diagram_feedback alone: calls made one after the other on a store
\* that runs have filled
FeedbackInit ==
    /\ messages = <<>>
    /\ \E recs \in FeedbackStores : diagrams_db = [parsable |-> TRUE, recs |-> recs]
    /\ context_files = [q \in {} |-> NoFile]
    /\ code_files = [q \in {} |-> NoFile]
    /\ max_retries = MAX_RETRIES
    /\ pc = [p \in Procs |-> "idle"]
    /\ thread_id = [p \in Procs |-> 1]
    /\ message_id = [p \in Procs |-> 0]
    /\ diagram_types = [p \in Procs |-> <<>>]
    /\ parent_message_id = [p \in Procs |-> 0]
    /\ idx = [p \in Procs |-> 0]
    /\ attempt = [p \in Procs |-> 0]
    /\ invocations = [p \in Procs |-> 0]
    /\ diagram_states = [p \in Procs |-> NoState]
    /\ diagram_records = [p \in Procs |-> <<>>]
    /\ rec_idx = [p \in Procs |-> 0]
    /\ loaded = [p \in Procs |-> <<>>]
    /\ status = [p \in Procs |-> "none"]
    /\ error = [p \in Procs |-> "none"]
    /\ valid_log = [p \in Procs |-> {}]
    /\ sp = NoStructCall /\ tp = NoTextCall
    /\ fb = NoFeedbackCall /\ gen = NoGenerator
FeedbackNext ==
    \/ \E d \in FeedbackIds, f \in FeedbackTexts, r \in FeedbackRatings :
          FeedbackLoad(d, f, r)
    \/ FeedbackUpdate
    \/ FeedbackReturn
FeedbackSpec == FeedbackInit /\ [][FeedbackNext]_vars

\* run_driver alone: one generator, advanced from yield to yield
ProgressInit == Init /\ max_retries = MAX_RETRIES
ProgressNext ==
    \/ \E given \in ListLengths, files \in BOOLEAN : GenCreate(given, files)
    \/ GenStarted \/ GenHistory \/ GenSaving \/ GenParsing \/ GenDetected
    \/ GenProcessing \/ GenExtracting \/ GenGenerating \/ GenRendering
    \/ GenDiagramComplete \/ GenDatabase \/ GenComplete \/ GenReturn
    \/ GenRaise
ProgressSpec == ProgressInit /\ [][ProgressNext]_vars

\* Either patcher: one call of ContextExtractor.apply_operations or one call
\* of CodeGenerator.apply_operations
PatchInit == StructInit \/ TextInit
PatchNext == StructNext \/ TextStep
PatchSpec == PatchInit /\ [][PatchNext]_vars

\* Requests served one at a time
SeqNext == \E p \in Procs : Step(p, 1)
SeqSpec == Init /\ [][SeqNext]_vars

\* The wrapper's loop is synchronous code: an attempt that can be made is made
\* (the proposer call returns or raises).
FairSeqSpec ==
    /\ SeqSpec
    /\ \A p \in Procs :
          /\ WF_vars(\E out \in ContextOps \cup {LLM_ERROR} : ExtractAttempt(p, out))
          /\ WF_vars(\E out \in CodeOps \cup {LLM_ERROR} : GenerateAttempt(p, out))

TypeOK ==
    /\ pc \in [Procs -> {"idle", "start", "extract", "extracted", "generate",
                         "generated", "persist", "open", "dump", "update_message",
                         "complete", "failed"}]
    /\ \A p \in Procs : attempt[p] <= max_retries

\* -------------------------------------------------------------- claims
\* The records of one key, in commit (file) order
KeyRecords(t, k) == SelectRecs(diagrams_db.recs, USER_ID, t, k)

\* The records on file that a run put there: under SeqSpec a run is known by
\* its thread and message id.
RunRecords(p) ==
    {i \in 1..Len(diagrams_db.recs) :
        /\ pc[p] # "idle"
        /\ diagrams_db.recs[i].thread_id = thread_id[p]
        /\ diagrams_db.recs[i].message_id = message_id[p]}

\* C1: after any sequence of completed runs executed one at a time, the records
\* of every key carry versions 1..N in commit order, the first has no parent,
\* every later one has the previous record's diagram_id as parent.  (A commit
\* only appends to the list it loaded, so the records of other keys stay as
\* they are.)
C1_VersionChain ==
    ((\A p \in Procs : pc[p] \in {"idle", "complete"}) /\ diagrams_db.parsable) =>
        \A t \in Threads, k \in Kinds :
            LET recs == KeyRecords(t, k)
            IN \A i \in 1..Len(recs) :
                  /\ recs[i].version = i
                  /\ recs[i].parent_diagram_id =
                        IF i = 1 THEN None ELSE recs[i-1].diagram_id

\* C2: a record of a run is on file only if, in that run, both nodes' execute
\* returned with validation passed for every requested kind; a run in which a
\* node exhausted its retries has no record on file.
AllValidated(p) ==
    valid_log[p] = (1..Len(diagram_types[p])) \X {"extractor", "generator"}

C2_CommitOnlyWhenAllValid ==
    \A p \in Procs :
        /\ RunRecords(p) # {} => AllValidated(p)
        /\ error[p] = "RuntimeError" => RunRecords(p) = {}

\* a run of two kinds has its records on file
C2_Witness ==
    \E p \in Procs : Cardinality(RunRecords(p)) = 2 /\ pc[p] = "complete"

\* C3: when run_driver has yielded "complete", every record the run prepared,
\* one per requested kind, is on file.
C3_CompleteMeansCommitted ==
    \A p \in Procs :
        (status[p] = "complete" /\ diagrams_db.parsable) =>
            /\ Len(diagram_records[p]) = Len(diagram_types[p])
            /\ \A i \in 1..Len(diagram_records[p]) :
                  \E j \in 1..Len(diagrams_db.recs) :
                      diagrams_db.recs[j] = diagram_records[p][i]

\* C4: the wrapper never calls func more than max_retries times; when every
\* attempt failed it has called it exactly max_retries times and raised
\* RuntimeError, and the run has no record on file.
C4_ExactlyMaxRetries ==
    \A p \in Procs :
        /\ invocations[p] <= max_retries
        /\ pc[p] \in {"extract", "generate"} => invocations[p] < max_retries
        /\ error[p] = "RuntimeError" =>
              /\ invocations[p] = max_retries
              /\ pc[p] = "failed"
              /\ RunRecords(p) = {}

\* a run exhausted three attempts while another run's record is on file
C4_Witness ==
    \E p \in Procs :
        /\ error[p] = "RuntimeError"
        /\ invocations[p] = 3
        /\ max_retries = 3
        /\ Len(diagrams_db.recs) > 0

\* A step in which the wrapper of request p made an attempt (called func)
AttemptStep(p) ==
    /\ pc[p] \in {"extract", "extracted", "generate"}
    /\ pc'[p] # pc[p] \/ invocations'[p] # invocations[p]

\* the wrapper's loop variable at that attempt, its node, and its pc values
AttemptNo(p) == IF pc[p] = "extracted" THEN 1 ELSE attempt[p]
AttemptNode(p) == IF pc[p] = "extract" THEN "extractor" ELSE "generator"
AgainPc(p) == IF pc[p] = "extract" THEN "extract" ELSE "generate"
SuccessPc(p) == IF pc[p] = "extract" THEN "extracted" ELSE "generated"
\* the attempt neither raised nor failed validation
AttemptPassed(p) == <<idx[p], AttemptNode(p)>> \in valid_log'[p]

\* C5: Attempting(n) -> {Success | Attempting(n+1) | Exhausted}.  An attempt
\* that passes ends the wrapper call in Success at once; a failed attempt
\* n < max_retries is followed by attempt n+1 of the same call; a failed attempt
\* max_retries ends in Exhausted (RuntimeError), which nothing leaves; and no
\* wrapper call stays in progress for ever: as the only ways out of Attempting
\* are Success and Exhausted, every call reaches one of the two.
C5_Transitions ==
    \A p \in Procs :
        /\ AttemptStep(p) =>
              /\ AttemptPassed(p) => pc'[p] = SuccessPc(p)
              /\ (~AttemptPassed(p) /\ AttemptNo(p) < max_retries) =>
                    /\ pc'[p] = AgainPc(p)
                    /\ attempt'[p] = AttemptNo(p) + 1
              /\ (~AttemptPassed(p) /\ AttemptNo(p) >= max_retries) =>
                    /\ pc'[p] = "failed"
                    /\ error'[p] = "RuntimeError"
        /\ pc[p] = "failed" => pc'[p] = "failed"

C5_RetryStateMachine ==
    /\ [][C5_Transitions]_vars
    /\ \A p \in Procs :
          /\ []<>(pc[p] # "extract")
          /\ []<>(pc[p] \notin {"extracted", "generate"})

\* a wrapper call succeeded at its third attempt
C5_Witness ==
    \E p \in Procs : pc[p] = "generated" /\ invocations[p] = 3 /\ attempt[p] = 3

\* C6: a failed attempt leaves the State object it was given, and the previous
\* documents the next attempt patches, as they were.
PreviousDocs(p) ==
    IF pc[p] \in {"extract", "extracted", "generate"} /\ diagrams_db.parsable
    THEN <<PreviousContext(diagrams_db.recs, context_files, parent_message_id[p],
                           USER_ID, thread_id[p], CurrentKind(p)),
           PreviousCode(diagrams_db.recs, code_files, parent_message_id[p],
                        USER_ID, thread_id[p], CurrentKind(p))>>
    ELSE <<>>

C6_AttemptsIndependent ==
    [][\A p \in Procs :
          (AttemptStep(p) /\ pc'[p] = AgainPc(p)) =>
              /\ diagram_states'[p] = diagram_states[p]
              /\ PreviousDocs(p)' = PreviousDocs(p)]_vars

\* C7: a record on file, and the two documents its paths point to, are never
\* changed by a later step; records of different messages of a thread point
\* to different documents.
\* The records committed: those on file, or the list add_diagram is writing
\* back while it has the file open.
StoredRecs ==
    IF diagrams_db.parsable THEN diagrams_db.recs
    ELSE IF \E p \in Procs : pc[p] = "dump"
         THEN loaded[CHOOSE p \in Procs : pc[p] = "dump"]
         ELSE <<>>

C7_Unchanged ==
    \A i \in 1..Len(StoredRecs) :
        LET r == StoredRecs[i]
        IN /\ i <= Len(StoredRecs')
           /\ StoredRecs'[i] = r
           /\ load_file(context_files', r.context_file_path) =
                  load_file(context_files, r.context_file_path)
           /\ load_file(code_files', r.plantuml_code_file_path) =
                  load_file(code_files, r.plantuml_code_file_path)

C7_NewDocuments ==
    \A i, j \in 1..Len(StoredRecs) :
        (StoredRecs[i].thread_id = StoredRecs[j].thread_id
            /\ StoredRecs[i].message_id # StoredRecs[j].message_id) =>
        /\ StoredRecs[i].context_file_path # StoredRecs[j].context_file_path
        /\ StoredRecs[i].plantuml_code_file_path # StoredRecs[j].plantuml_code_file_path

NoRepeatedKind(p) ==
    \A i, j \in 1..Len(diagram_types[p]) :
        diagram_types[p][i] = diagram_types[p][j] => i = j

C8_LinearChain ==
    ((\A p \in Procs : NoRepeatedKind(p)) /\ diagrams_db.parsable) =>
    \A t \in Threads, k \in Kinds :
        \A i, j \in 1..Len(KeyRecords(t, k)) :
            i # j =>
                /\ KeyRecords(t, k)[i].version # KeyRecords(t, k)[j].version
                /\ KeyRecords(t, k)[i].parent_diagram_id # KeyRecords(t, k)[j].parent_diagram_id

\* C9: cycles on different keys that run in parallel lose nothing: when a
\* cycle has had all its add_diagram calls return, its records are on file.
Keys(p) == {<<thread_id[p], diagram_types[p][i]>> : i \in 1..Len(diagram_types[p])}

Committed(p) ==
    /\ pc[p] = "complete"
    /\ diagram_records[p] # <<>>
    /\ rec_idx[p] > Len(diagram_records[p])

C9_IndependentKeys ==
    ((\A p, q \in Procs : p # q => Keys(p) \cap Keys(q) = {})
        /\ diagrams_db.parsable) =>
    \A p \in Procs :
        Committed(p) =>
            \A i \in 1..Len(diagram_records[p]) :
                \E j \in 1..Len(diagrams_db.recs) :
                    diagrams_db.recs[j] = diagram_records[p][i]

\* C10: get_latest_diagram, run while another cycle is inside add_diagram,
\* never finds the store unparsable.
C10_NoPartialRead ==
    \A p \in Procs : error[p] # "JSONDecodeError"

\* The chain of C1 for runs that name every kind once
C1_ChainOfDistinctKinds ==
    (\A p \in Procs : NoRepeatedKind(p)) => C1_VersionChain

\* ------------------------------------------ claims on the patchers
\* apply_operations run to its end on a call
RECURSIVE RunStruct(_)
RunStruct(c) == IF StructRunning(c) THEN RunStruct(ApplyStructOp(c)) ELSE c

\* the operations of ops, none of them a root operation, applied one after
\* the other to doc (<<>> stands for an exception)
RECURSIVE ApplyEach(_, _)
ApplyEach(doc, ops) ==
    IF ops = <<>> THEN doc
    ELSE LET r == _apply_operation(doc, Head(ops).operation, Head(ops).location,
                                   parse_block_value(Head(ops).block))
         IN IF r.exc = "none" THEN ApplyEach(r.doc, Tail(ops)) ELSE <<>>

\* Every container the path names is in the document already: each step
\* before the last finds its mapping or its element, and the last step finds
\* its sequence (index given) or finds its key absent (no index).
RECURSIVE Resolves(_, _)
Resolves(cur, parts) ==
    LET key == parts[1].key
        index == parts[1].index
    IN /\ cur.t = "map"
       /\ index # EndIndex
       /\ IF Len(parts) = 1
          THEN IF index = NoIndex THEN key \notin DOMAIN cur.v
               ELSE key \in DOMAIN cur.v /\ cur.v[key].t = "seq"
          ELSE /\ key \in DOMAIN cur.v
               /\ IF index = NoIndex THEN Resolves(cur.v[key], Tail(parts))
                  ELSE /\ cur.v[key].t = "seq"
                       /\ index < Len(cur.v[key].v)
                       /\ Resolves(cur.v[key].v[index + 1], Tail(parts))

\* the call is Add(p, payload) followed by Delete(p), and is over
AddThenDelete(c) ==
    /\ ~StructRunning(c) /\ c.on
    /\ Len(c.ops) = 2
    /\ c.ops[1].operation = "add" /\ c.ops[2].operation = "delete"
    /\ c.ops[1].location = c.ops[2].location
    /\ c.ops[1].location \in ValidLocations

\* C11 as claimed: for every document and every valid path, Add(p, payload)
\* followed by Delete(p) returns a document equal to the one given.
C11_RoundTripAnyPath ==
    (AddThenDelete(sp) /\ StructReturned(sp)) => sp.context = sp.given

\* C11, amended: the round trip holds for the paths whose containers are all
\* in the document already (nothing is auto-created, no [end], no key that is
\* overwritten); with an index beyond the length both operations are no-ops.
C11_RoundTrip ==
    (AddThenDelete(sp) /\ Resolves(sp.given, ParseLocation(sp.ops[1].location))) =>
        /\ StructReturned(sp)
        /\ sp.context = sp.given

\* the payload was inserted in the middle of a two-element sequence and
\* removed again
C11_Witness ==
    /\ AddThenDelete(sp) /\ StructReturned(sp)
    /\ Resolves(sp.given, ParseLocation(sp.ops[1].location))
    /\ sp.ops[1].location = <<"a", "[", "1", "]">>
    /\ sp.given = Map([k \in {KeyA} |-> Sq(<<Str("s"), Str("t")>>)])
    /\ sp.ops[1].block = Str("v")

\* a root operation, and one whose normalized payload is a mapping
IsRoot(op) == op.location = RootLocation
GoodRoot(op) == IsRoot(op) /\ parse_block_value(op.block).t = "map"
\* the position of the last root operation of a list (0 if none)
LastRoot(ops) ==
    IF \E j \in 1..Len(ops) : IsRoot(ops[j])
    THEN CHOOSE j \in 1..Len(ops) :
            IsRoot(ops[j]) /\ \A h \in (j + 1)..Len(ops) : ~IsRoot(ops[h])
    ELSE 0

\* C12: the same root Add applied twice gives what it gives applied once, and
\* after a list with root operations the document returned is the payload of
\* the last of them with the operations after it applied to it.
C12_RootLastWriteWins ==
    (sp.on /\ ~StructRunning(sp)) =>
        /\ (Len(sp.ops) = 2 /\ IsRoot(sp.ops[1]) /\ sp.ops[1].operation = "add"
                /\ sp.ops[2] = sp.ops[1]) =>
              LET once == RunStruct(StructCall(sp.given, <<sp.ops[1]>>))
              IN /\ sp.exc = once.exc
                 /\ sp.exc = "none" => sp.context = once.context
        /\ (StructReturned(sp) /\ LastRoot(sp.ops) > 0) =>
              sp.context =
                  ApplyEach(parse_block_value(sp.ops[LastRoot(sp.ops)].block),
                            SubSeq(sp.ops, LastRoot(sp.ops) + 1, Len(sp.ops)))

\* two root operations with different payloads were applied to a document
\* that is neither
C12_Witness ==
    /\ StructReturned(sp)
    /\ Len(sp.ops) = 2 /\ GoodRoot(sp.ops[1]) /\ GoodRoot(sp.ops[2])
    /\ parse_block_value(sp.ops[1].block) # parse_block_value(sp.ops[2].block)
    /\ sp.given \notin {parse_block_value(sp.ops[1].block),
                        parse_block_value(sp.ops[2].block)}

\* C13: a list holding a root operation whose normalized payload is not a
\* mapping makes apply_operations raise, wherever the operation stands in the
\* list: no document is returned, none is saved, and when the loop reaches the
\* operation the error is ValueError.
C13_RootPayloadNotMapping ==
    \A j \in 1..Len(sp.ops) :
        (IsRoot(sp.ops[j]) /\ ~GoodRoot(sp.ops[j])) =>
            /\ ~StructReturned(sp)
            /\ ~sp.saved
            /\ sp.i <= j
            /\ (sp.i = j /\ sp.exc # "none") => sp.exc = "ValueError"

\* the list was applied up to its second operation, a root operation with a
\* list as payload, and raised there
C13_Witness ==
    /\ sp.on /\ Len(sp.ops) = 2 /\ sp.i = 2 /\ sp.exc = "ValueError"
    /\ IsRoot(sp.ops[2]) /\ sp.ops[2].block = Str("[]")
    /\ sp.context # sp.given

\* A token of a location is well formed when it is a key, or a key followed
\* by [N] or [end], and nothing else.
WellFormedToken(token) ==
    LET key == KeyPrefix(token)
        rest == SubSeq(token, Len(key) + 1, Len(token))
    IN /\ key # <<>>
       /\ \A n \in 1..Len(key) : key[n] # "]"
       /\ \/ rest = <<>>
          \/ /\ IndexOf(rest) # NoIndex
             /\ rest[Len(rest)] = "]"
             /\ \A n \in 2..(Len(rest) - 1) : rest[n] \in Digits \cup {"end"}
MalformedLocation(location) ==
    LET tokens == SplitDots(location, <<>>)
    IN \E n \in 1..Len(tokens) : ~WellFormedToken(tokens[n])

\* C14: an operation whose location is malformed is never applied: the loop
\* does not get past it.
C14_MalformedLocationFails ==
    \A j \in 1..Len(sp.ops) :
        (~IsRoot(sp.ops[j]) /\ MalformedLocation(sp.ops[j].location)) => sp.i <= j

\* C20: apply_operations leaves the previous document it was given as it was.
C20_PatchersPure ==
    sp.on => sp.previous = sp.given

\* The lines of a list that match a pattern, as 0-based indices: a literal
\* pattern matches the lines it is a substring of, the sentinel the lines
\* that are empty or whitespace only.
Matching(lines, pattern) ==
    {i \in 0..(Len(lines) - 1) :
        IF pattern = EMPTY_LINE
        THEN \A n \in 1..Len(lines[i + 1]) : lines[i + 1][n] \in Whitespace
        ELSE \E n \in 1..(Len(lines[i + 1]) + 1) :
                /\ n + Len(pattern) - 1 <= Len(lines[i + 1])
                /\ \A h \in 1..Len(pattern) : lines[i + 1][n + h - 1] = pattern[h]}

\* the n-th smallest member of a set of indices, -1 if it has fewer than n
NthOf(S, n) ==
    IF n > Cardinality(S) THEN -1
    ELSE CHOOSE i \in S : Cardinality({j \in S : j <= i}) = n

\* C15: with k matching lines, _find_line_index returns the index of the n-th
\* matching line in document order when 1 <= n <= k, and -1 when n > k.
C15_FindLineIndex ==
    tp.mode = "located" =>
        tp.result = NthOf(Matching(tp.lines, tp.pattern), tp.occurrence)

\* the second of two matching lines was asked for and is the third line
C15_Witness ==
    /\ tp.mode = "located"
    /\ tp.pattern = <<"a">> /\ tp.occurrence = 2
    /\ Matching(tp.lines, tp.pattern) = {0, 2}
    /\ tp.result = 2

\* The operation apply_operations applied last, and what the anchors of an
\* Add found in the document it was applied to
LastOp(c) == c.ops[c.i - 1]
Applied(c, operation) ==
    /\ c.mode = "apply" /\ c.i > 1
    /\ LastOp(c).operation = operation
    /\ LastOp(c).location.kind = "anchors"
AnchorIndex(code, anchor) ==
    NthOf(Matching(SplitLines(code, <<>>), _parse_location_pattern(anchor).text),
          _parse_location_pattern(anchor).occurrence)

\* C16: an Add whose `after` anchor is not found does not raise, and gives the
\* lines of the previous document followed by the lines of the payload.
C16_AddAfterNotFound ==
    /\ (tp.mode = "apply" /\ tp.exc # "none") =>
            tp.ops[tp.i].location.kind # "anchors"
    /\ (Applied(tp, "add") /\ AnchorIndex(tp.prior, LastOp(tp).location.after_line) = -1) =>
            SplitLines(tp.code, <<>>) =
                SplitLines(tp.prior, <<>>) \o SplitLines(LastOp(tp).block, <<>>)

\* a two-line payload was added to a four-line document that has no line
\* holding the anchor's text
C16_Witness ==
    /\ Applied(tp, "add")
    /\ AnchorIndex(tp.prior, LastOp(tp).location.after_line) = -1
    /\ Len(SplitLines(tp.prior, <<>>)) = 4
    /\ Len(SplitLines(LastOp(tp).block, <<>>)) = 2

\* C17: an Add whose `after` anchor is found at line i puts the payload's
\* lines right after line i and keeps the other lines in their order; the
\* `before` anchor has no part in the result.
C17_AddAfterFound ==
    (Applied(tp, "add") /\ AnchorIndex(tp.prior, LastOp(tp).location.after_line) # -1) =>
        LET i == AnchorIndex(tp.prior, LastOp(tp).location.after_line)
            lines == SplitLines(tp.prior, <<>>)
        IN /\ SplitLines(tp.code, <<>>) =
                  SubSeq(lines, 1, i + 1) \o SplitLines(LastOp(tp).block, <<>>)
                      \o SubSeq(lines, i + 2, Len(lines))
           /\ \A b \in BeforeAnchors :
                  TextApplyOperation(tp.prior, "add",
                      PlantUMLLocation(LastOp(tp).location.after_line, b),
                      LastOp(tp).block) = tp.code

\* the `after` anchor was found on the third line, the `before` anchor on the
\* second
C17_Witness ==
    /\ Applied(tp, "add")
    /\ AnchorIndex(tp.prior, LastOp(tp).location.after_line) = 2
    /\ AnchorIndex(tp.prior, LastOp(tp).location.before_line) = 1
    /\ LastOp(tp).block # <<>>

\* the places (0-based) where the payload's lines stand in the document
RunsOf(code, block) ==
    LET lines == SplitLines(code, <<>>)
        b == SplitLines(block, <<>>)
    IN {i \in 0..(Len(lines) - Len(b)) :
            \A n \in 1..Len(b) : lines[i + n] = b[n]}

\* C18: a Delete removes the first run of lines equal to the payload's lines
\* and nothing else; with no such run the document stays as it was.
C18_DeleteFirstRun ==
    Applied(tp, "delete") =>
        LET runs == RunsOf(tp.prior, LastOp(tp).block)
            lines == SplitLines(tp.prior, <<>>)
            n == Len(SplitLines(LastOp(tp).block, <<>>))
        IN IF runs = {} THEN tp.code = tp.prior
           ELSE LET i == NthOf(runs, 1)
                IN tp.code = JoinLines(SubSeq(lines, 1, i)
                                       \o SubSeq(lines, i + n + 1, Len(lines)))

\* the payload stood at the first and at the last line, and the first went
C18_Witness ==
    /\ Applied(tp, "delete")
    /\ RunsOf(tp.prior, LastOp(tp).block) = {0, 3}
    /\ Len(SplitLines(tp.code, <<>>)) = 3

\* C19: CodeGenerator.apply_operations raises for no operation list.
C19_TextPatcherNeverRaises ==
    tp.mode = "apply" => tp.exc = "none"

\* The operation a turn of the structural loop applies, its parts, and
\* whether the turn applies a non-root operation of a kind without raising
StructOp(c) == c.ops[c.i]
StructParts(c) == ParseLocation(StructOp(c).location)
StructTurn(operation) ==
    /\ StructStep
    /\ StructOp(sp).operation = operation
    /\ StructOp(sp).location \in ValidLocations
    /\ sp'.exc = "none"

\* C21: an Add whose one step has the numeric index N inserts the payload at
\* position N of current[key] when N <= len, and leaves the whole document as
\* it was when N > len, also when the key was absent.
C21_AddAtIndex ==
    [][(/\ StructTurn("add")
        /\ Len(StructParts(sp)) = 1
        /\ StructParts(sp)[1].index >= 0
        /\ StructParts(sp)[1].key \in DOMAIN sp.context.v =>
                sp.context.v[StructParts(sp)[1].key].t = "seq") =>
       LET key == StructParts(sp)[1].key
           N == StructParts(sp)[1].index
           seq == IF key \in DOMAIN sp.context.v THEN sp.context.v[key] ELSE EmptySeq
       IN IF N <= Len(seq.v)
          THEN sp'.context = MapSet(sp.context, key,
                    Sq(SubSeq(seq.v, 1, N) \o <<parse_block_value(StructOp(sp).block)>>
                       \o SubSeq(seq.v, N + 1, Len(seq.v))))
          ELSE sp'.context = sp.context]_vars

\* The target of a path is in the document: every step before the last finds
\* its mapping or its element, and the last step finds its key (no index) or
\* its element (numeric index); [end] names no target.
RECURSIVE TargetExists(_, _)
TargetExists(cur, parts) ==
    LET key == parts[1].key
        index == parts[1].index
    IN /\ cur.t = "map"
       /\ key \in DOMAIN cur.v
       /\ index # EndIndex
       /\ index # NoIndex => (cur.v[key].t = "seq" /\ index < Len(cur.v[key].v))
       /\ Len(parts) > 1 =>
            TargetExists(IF index = NoIndex THEN cur.v[key] ELSE cur.v[key].v[index + 1],
                         Tail(parts))

\* C22: a Delete whose target is not in the document returns a document equal
\* to the one it was given, for paths of any length.
C22_DeleteNothing ==
    [][(/\ StructTurn("delete")
        /\ \A j \in 1..(Len(StructParts(sp)) - 1) : StructParts(sp)[j].index # EndIndex
        /\ ~TargetExists(sp.context, StructParts(sp))) =>
       sp'.context = sp.context]_vars

\* C23: after an operation on a path of two steps the container the first
\* step names is there in its shape (a mapping without index, a sequence that
\* holds the index with one), and the operation was applied inside it: no other
\* key of the parent is added, removed or changed.
C23_Navigation ==
    [][(/\ StructStep
        /\ StructOp(sp).location \in ValidLocations
        /\ StructOp(sp).operation \in {"add", "delete"}
        /\ Len(StructParts(sp)) = 2
        /\ sp'.exc = "none") =>
       LET key == StructParts(sp)[1].key
           index == StructParts(sp)[1].index
       IN /\ key \in DOMAIN sp'.context.v
          /\ index = NoIndex => sp'.context.v[key].t = "map"
          /\ index # NoIndex => sp'.context.v[key].t = "seq"
          /\ index >= 0 => Len(sp'.context.v[key].v) > index
          /\ DOMAIN sp'.context.v \ {key} = DOMAIN sp.context.v \ {key}
          /\ \A k \in DOMAIN sp.context.v \ {key} :
                sp'.context.v[k] = sp.context.v[k]]_vars

\* CodeGenerator.apply_operations run to its end on a call
RECURSIVE RunText(_)
RunText(c) == IF TextRunning(c) THEN RunText(ApplyTextOp(c)) ELSE c

\* A document handed through one call of apply_operations per operation: each
\* call is given what the call before it returned (exc is the exception of
\* the call that raised, and no call is made after it).
RECURSIVE OneByOneText(_, _)
OneByOneText(d, ops) ==
    IF ops = <<>> THEN [code |-> d, exc |-> "none"]
    ELSE LET r == RunText(TextCall(d, <<Head(ops)>>))
         IN IF r.exc = "none" THEN OneByOneText(r.code, Tail(ops))
            ELSE [code |-> d, exc |-> r.exc]
RECURSIVE OneByOneStruct(_, _)
OneByOneStruct(d, ops) ==
    IF ops = <<>> THEN [context |-> d, exc |-> "none"]
    ELSE LET r == RunStruct(StructCall(d, <<Head(ops)>>))
         IN IF r.exc = "none" THEN OneByOneStruct(r.context, Tail(ops))
            ELSE [context |-> d, exc |-> r.exc]

\* C24: both patchers apply the operations in list order: what a call holds
\* after its first operations is what one call per operation, each on the
\* result of the one before, gives; a call raises where those calls raise.
C24_ListOrder ==
    /\ (tp.mode = "apply") =>
          LET done == OneByOneText(tp.given, SubSeq(tp.ops, 1, tp.i - 1))
          IN /\ done.exc = "none" /\ tp.code = done.code
             /\ TextRunning(tp) \/ tp.exc = OneByOneText(tp.given, tp.ops).exc
    /\ sp.on =>
          LET done == OneByOneStruct(sp.given, SubSeq(sp.ops, 1, sp.i - 1))
          IN /\ done.exc = "none"
             /\ sp.exc = "none" => sp.context = done.context
             /\ StructRunning(sp) \/ sp.exc = OneByOneStruct(sp.given, sp.ops).exc

\* the second operation's anchor is on a line the first operation brought in,
\* and its payload went in right after that line
C24_Witness ==
    /\ TextReturned(tp) /\ Len(tp.ops) = 2
    /\ tp.ops[2].operation = "add" /\ tp.ops[2].location # TextRoot
    /\ tp.ops[2].location.kind = "anchors"
    /\ AnchorIndex(tp.given, tp.ops[2].location.after_line) = -1
    /\ AnchorIndex(tp.prior, tp.ops[2].location.after_line) = 0
    /\ Len(SplitLines(tp.prior, <<>>)) = 2
    /\ SplitLines(tp.code, <<>>)[2] = tp.ops[2].block

\* two records of one run tell apart by id and by (key, version)
DistinctRecords(r1, r2) ==
    /\ r1.diagram_id # r2.diagram_id
    /\ <<r1.user_id, r1.thread_id, r1.diagram_type, r1.version>>
          # <<r2.user_id, r2.thread_id, r2.diagram_type, r2.version>>

\* C25: the records one run prepares, and those it commits, have pairwise
\* distinct diagram_id values and pairwise distinct (key, version) pairs,
\* whatever the list of kinds of the run.
C25_DistinctRunRecords ==
    \A p \in Procs :
        /\ \A i, j \in 1..Len(diagram_records[p]) :
              i # j => DistinctRecords(diagram_records[p][i], diagram_records[p][j])
        /\ diagrams_db.parsable =>
              \A i, j \in RunRecords(p) :
                  i # j => DistinctRecords(diagrams_db.recs[i], diagrams_db.recs[j])

\* C26: the document ContextExtractor.apply_operations holds is a mapping after
\* every operation, so the value it returns, and the value passed to
\* save_context_file, is a mapping.
C26_ReturnsMapping ==
    sp.on => /\ sp.given.t = "map"
             /\ sp.context.t = "map"
             /\ sp.saved => StructReturned(sp)

\* a root operation put a mapping in place, a non-root Add bound a sequence to
\* a top-level key of it, and the mapping was returned and saved
C26_Witness ==
    /\ StructReturned(sp) /\ sp.saved
    /\ Len(sp.ops) = 2
    /\ GoodRoot(sp.ops[1])
    /\ sp.ops[2] = Operation("add", <<"a">>, Str("[]"))
    /\ sp.context = Map([k \in {KeyA, KeyB} |-> IF k = KeyA THEN EmptySeq ELSE Str("v")])

\* the kinds an operation can name: the two the patchers know and another
OperationKinds == {"add", "delete", "update"}

\* C27: in both patchers a root operation puts its payload in the place of the
\* whole document whatever its kind is: the turn of the loop gives what it
\* gives with the kind replaced by add, delete or any other.
C27_RootAnyKind ==
    [][/\ (TextStep /\ tp.ops[tp.i].location = TextRoot) =>
            /\ tp'.exc = "none" /\ tp'.code = tp.ops[tp.i].block
            /\ \A o \in OperationKinds :
                  ApplyTextOp([tp EXCEPT !.ops[tp.i].operation = o]).code = tp'.code
       /\ (StructStep /\ IsRoot(sp.ops[sp.i])) =>
            /\ sp'.exc = "none" => sp'.context = parse_block_value(sp.ops[sp.i].block)
            /\ \A o \in OperationKinds :
                  LET r == ApplyStructOp([sp EXCEPT !.ops[sp.i].operation = o])
                  IN r.context = sp'.context /\ r.exc = sp'.exc]_vars

\* a root operation of kind delete has put its payload in the place of a
\* document of two lines
C27_Witness ==
    /\ tp.mode = "apply" /\ tp.i > 1
    /\ LastOp(tp) = Operation("delete", TextRoot, LineB)
    /\ Len(SplitLines(tp.prior, <<>>)) = 2
    /\ tp.code = LineB

\* C28: the result of a text Delete depends on the document and the payload
\* only: every pair of anchors, found or not, gives the result the applied
\* operation gave.
C28_DeleteIgnoresAnchors ==
    Applied(tp, "delete") =>
        \A a \in AfterAnchors, b \in BeforeAnchors :
            TextApplyOperation(tp.prior, "delete", PlantUMLLocation(a, b), LastOp(tp).block)
                = tp.code

\* a Delete whose `before` anchor is nowhere in the document removed a line,
\* and the document has a line for one of the `after` anchors and none for
\* another
C28_Witness ==
    /\ Applied(tp, "delete")
    /\ tp.code # tp.prior
    /\ AnchorIndex(tp.prior, LastOp(tp).location.before_line) = -1
    /\ \E a1, a2 \in AfterAnchors :
          AnchorIndex(tp.prior, a1) = -1 /\ AnchorIndex(tp.prior, a2) # -1

\* the fields of a stored record that are not feedback fields
FrameFields(r) == DOMAIN r \ {"user_feedback", "feedback_rating"}

\* C29: a call of update_diagram_feedback leaves the number and the order of
\* the records and every field but user_feedback and feedback_rating as they
\* were; it writes the two fields into one record with the given id and
\* returns True, or, when no record has the id, returns False and leaves the
\* store as it was.
C29_FeedbackFrame ==
    [][FeedbackUpdate =>
        LET old == diagrams_db.recs
            new == diagrams_db'.recs
            hits == {i \in 1..Len(old) : old[i].diagram_id = fb.diagram_id}
        IN /\ diagrams_db'.parsable
           /\ Len(new) = Len(old)
           /\ \A i \in 1..Len(old) :
                 /\ DOMAIN new[i] = DOMAIN old[i]
                 /\ \A f \in FrameFields(old[i]) : new[i][f] = old[i][f]
           /\ IF hits = {}
              THEN fb'.result = FALSE /\ new = old
              ELSE /\ fb'.result = TRUE
                   /\ \E j \in hits :
                         /\ new[j].user_feedback = Some(fb.user_feedback)
                         /\ new[j].feedback_rating = Some(fb.feedback_rating)
                         /\ \A i \in 1..Len(old) : i # j => new[i] = old[i]]_vars

\* feedback was written into the second of three records; the first record
\* keeps the feedback an earlier call gave it and the third has none
C29_Witness ==
    /\ fb.pc = "returned" /\ fb.result
    /\ Len(diagrams_db.recs) = 3
    /\ fb.diagram_id = diagrams_db.recs[2].diagram_id
    /\ diagrams_db.recs[2].user_feedback = Some("bad")
    /\ diagrams_db.recs[2].feedback_rating = Some(1)
    /\ diagrams_db.recs[1].user_feedback = Some("good")
    /\ diagrams_db.recs[3].user_feedback = None

\* C30: the first update is "started" with progress 0; progress never
\* decreases from one update to the next; the updates of each diagram come in
\* the order extract context, generate code, render, complete; the one update
\* with status "complete" has progress 100, is the last, and comes after
\* update_after_run was called.
C30_OrderedUpdates ==
    gen.on =>
        LET u == gen.updates
        IN /\ u # <<>> => (u[1].status = "started" /\ u[1].progress = 0)
           /\ \A i \in 2..Len(u) :
                 /\ u[i].status # "started"
                 /\ u[i - 1].progress <= u[i].progress
                 /\ u[i].stage = "generating" =>
                        (u[i - 1].stage = "extracting" /\ u[i - 1].idx = u[i].idx)
                 /\ u[i].stage = "rendering" =>
                        (u[i - 1].stage = "generating" /\ u[i - 1].idx = u[i].idx)
                 /\ u[i].stage = "done" =>
                        (u[i - 1].stage = "rendering" /\ u[i - 1].idx = u[i].idx)
           /\ \A i \in 1..Len(u) :
                 u[i].status = "complete" =>
                    (i = Len(u) /\ u[i].progress = 100 /\ gen.after_run)
           /\ gen.ended = "returned" => u[Len(u)].status = "complete"
====
